---- MODULE Spec2Model ----
(***************************************************************************)
(* A model of the travel-time matrix service: the TTL cache, the fixed     *)
(* window rate limiter, the Google Maps reference parser, the short-link   *)
(* expander, the coordinate resolver and the travel matrix fan-out.        *)
(*                                                                         *)
(* Strings are sequences of one-character strings, so that the regular     *)
(* expressions and the URL parser of the source can be modelled by what    *)
(* they do to the characters.                                              *)
(***************************************************************************)
EXTENDS Integers, Sequences, FiniteSets, TLC

VARIABLES
    now,        \* Date.now(), in abstract milliseconds
    cache,      \* TTLCache.store of one cache instance: key -> entry
    cacheLast,  \* the last TTLCache call: operation, key, time, returned T | null
    cacheSets,  \* history: key -> the most recent set on that key
    buckets,    \* rate-limit.ts buckets: key -> bucket
    rlLast,     \* history: key -> the last checkRateLimit call on that key
    rlOpen,     \* history: key -> the time of the call that opened the window
    rlCalls,    \* history: key -> calls made in the window opened at rlOpen
    rlAdmits,   \* history: key -> the times of the requests admitted of late
    rq,         \* the POST /api/travel requests: handler -> where it stands
    hd,         \* the requests of the five API handlers: slot -> where it stands
    dataFile,   \* data/landmarks.json: the stored landmarks
    writeQueue, \* landmarks-store writeQueue: the writes chained and not yet done
    mut,        \* the landmark mutations in flight: caller -> where it stands
    fw,         \* the file at the level of its fs calls: writes in progress, agents
    geocodeCache,   \* google-maps.ts geocodeCache.store
    shortUrlCache,  \* google-maps.ts shortUrlCache.store
    apiKey,         \* is process.env.GOOGLE_MAPS_API_KEY configured?
    rs,             \* the running resolveCoordinatesFromInput call
    distanceCache,  \* google-maps.ts distanceCache.store
    mx,             \* the running travel matrix computation of POST /api/travel
    dc,             \* getDistanceWithTraffic calls in a row: the one running, those stored
    pe,             \* the last call of a pure function: input and result
    advances        \* how often the clock has jumped

cacheVars == <<cache, cacheLast, cacheSets>>
rateVars == <<buckets, rlLast, rlOpen, rlCalls, rlAdmits, rq, hd>>
envVars == <<apiKey, advances>>
resolveVars == <<geocodeCache, shortUrlCache, rs>>
matrixVars == <<distanceCache, mx, dc>>
parseVars == <<pe>>
storeVars == <<dataFile, writeQueue, mut, fw>>
vars == <<now, cacheVars, rateVars, envVars, resolveVars, matrixVars, parseVars, storeVars>>

\* JavaScript's "T | null" (and "T | undefined"): None, or Some(x) holding x
None == <<>>
Some(x) == <<x>>

(***************************************************************************)
(* Bounds of the model.                                                    *)
(***************************************************************************)
MaxNow == 5             \* the clock stops advancing here
MaxTtl == 2             \* the largest ttlMs override passed to set
MaxCallsPerWindow == 4  \* calls modelled per key and window
WindowMs == 2           \* windowMs of the rate-limited keys
MaxRequests == 2        \* maxRequests of the key "wide"

(***************************************************************************)
(* cache.ts: TTLCache                                                      *)
(***************************************************************************)
CacheKeys == {"k1", "k2"}
CacheValues == {"v1", "v2"}
DefaultTtlMs == 1       \* constructor argument of the modelled instance

EmptyStore == [k \in {} |-> None]

\* store.get(key): the entry, or undefined when the key is absent
StoreGet(store, key) == IF key \in DOMAIN store THEN Some(store[key]) ELSE None

\* store.set(key, entry)
StorePut(store, key, entry) ==
    [k \in DOMAIN store \cup {key} |-> IF k = key THEN entry ELSE store[k]]

\* store.delete(key)
StoreDelete(store, key) == [k \in DOMAIN store \ {key} |-> store[k]]

\* the expiry test of get: Date.now() > item.expiresAt
IsExpiredNever(item, t) == FALSE
IsExpired(item, t) == t > item.expiresAt

\* the store after get(key) at time t: a stale entry is deleted
CacheGetStoreKeepStale(store, key, t) == store
CacheGetStoreSliding(store, key, t) ==
    IF key \in DOMAIN store /\ t <= store[key].expiresAt
    THEN [store EXCEPT ![key].expiresAt = t + 1]
    ELSE [k \in DOMAIN store \ {key} |-> store[k]]
CacheGetStore(store, key, t) ==
    LET item == StoreGet(store, key)
    IN  IF item = None THEN store
        ELSE IF IsExpired(item[1], t) THEN StoreDelete(store, key)
        ELSE store

\* the value get(key) returns at time t
CacheGetValue(store, key, t) ==
    LET item == StoreGet(store, key)
    IN  IF item = None THEN None
        ELSE IF IsExpired(item[1], t) THEN None
        ELSE Some(item[1].value)

\* ttlMs ?? this.defaultTtlMs
EffectiveTtlAlwaysDefault(ttlMs, defaultTtlMs) == defaultTtlMs
EffectiveTtl(ttlMs, defaultTtlMs) == IF ttlMs = None THEN defaultTtlMs ELSE ttlMs[1]

\* the store after set(key, value, ttlMs) at time t
CacheSetStore(store, key, value, ttlMs, defaultTtlMs, t) ==
    StorePut(store, key,
             [value |-> value, expiresAt |-> t + EffectiveTtl(ttlMs, defaultTtlMs)])

TtlChoices == {None} \cup {Some(t) : t \in 0 .. MaxTtl}

\* history: what the key held when a call on it began
HeldBefore(store, key, t) ==
    IF key \notin DOMAIN store THEN "none"
    ELSE IF t > store[key].expiresAt THEN "expired"
    ELSE "live"

CacheInit ==
    /\ cache = EmptyStore
    /\ cacheLast = [op |-> "none", key |-> "", at |-> 0, ret |-> None, held |-> "none"]
    /\ cacheSets = [k \in CacheKeys |-> None]

CacheSet(key, value, ttlMs) ==
    /\ cache' = CacheSetStore(cache, key, value, ttlMs, DefaultTtlMs, now)
    /\ cacheLast' = [op |-> "set", key |-> key, at |-> now, ret |-> None,
                     held |-> HeldBefore(cache, key, now)]
    /\ cacheSets' = [cacheSets EXCEPT ![key] =
                        Some([value |-> value, at |-> now,
                              ttl |-> IF ttlMs = None THEN DefaultTtlMs ELSE ttlMs[1]])]
    /\ UNCHANGED <<now, rateVars, envVars, resolveVars, matrixVars, parseVars, storeVars>>

CacheGet(key) ==
    /\ cache' = CacheGetStore(cache, key, now)
    /\ cacheLast' = [op |-> "get", key |-> key, at |-> now,
                     ret |-> CacheGetValue(cache, key, now),
                     held |-> HeldBefore(cache, key, now)]
    /\ UNCHANGED <<now, cacheSets, rateVars, envVars, resolveVars, matrixVars, parseVars, storeVars>>

\* the clock advances between calls
Tick ==
    /\ now < MaxNow
    /\ now' = now + 1
    /\ UNCHANGED <<cacheVars, rateVars, envVars, resolveVars, matrixVars, parseVars, storeVars>>

(***************************************************************************)
(* rate-limit.ts: checkRateLimit                                           *)
(***************************************************************************)
RateKeys == {"zero", "one", "wide"}

\* the API handlers; the client key of a handler is its name and the client
HandlerKinds ==
    {"landmarks:get", "landmarks:post", "landmarks:put", "landmarks:delete", "travel:post"}
AllKeys == RateKeys \cup HandlerKinds

\* every caller passes a fixed maxRequests for its keys
MaxRequestsOf(key) ==
    IF key = "zero" THEN 0 ELSE IF key = "one" THEN 1 ELSE MaxRequests

\* !current || now > current.resetAt
NeedsFreshBucketAlways(current, t) == TRUE
NeedsFreshBucketInclusive(current, t) ==
    IF current = None THEN TRUE ELSE t >= current[1].resetAt
NeedsFreshBucket(current, t) ==
    IF current = None THEN TRUE ELSE t > current[1].resetAt

\* current.count >= maxRequests
QuotaUsedNever(current, maxRequests) == FALSE
QuotaUsedOffByOne(current, maxRequests) == current[1].count > maxRequests
QuotaUsed(current, maxRequests) == current[1].count >= maxRequests

\* the value checkRateLimit returns at time t
RateLimitAllows(bs, key, maxRequests, t) ==
    LET current == bs[key]
    IN  IF NeedsFreshBucket(current, t) THEN TRUE
        ELSE ~QuotaUsed(current, maxRequests)

\* the buckets after checkRateLimit at time t
RateLimitBucketsLostUpdate(bs, key, maxRequests, windowMs, t) ==
    IF bs[key] = None \/ t > bs[key][1].resetAt
    THEN [bs EXCEPT ![key] = Some([count |-> 1, resetAt |-> t + windowMs])]
    ELSE bs
RateLimitBucketsSlidingDenial(bs, key, maxRequests, windowMs, t) ==
    IF bs[key] = None \/ t > bs[key][1].resetAt
    THEN [bs EXCEPT ![key] = Some([count |-> 1, resetAt |-> t + windowMs])]
    ELSE IF bs[key][1].count >= maxRequests
    THEN [bs EXCEPT ![key] = Some([count |-> bs[key][1].count,
                                   resetAt |-> t + windowMs])]
    ELSE [bs EXCEPT ![key] = Some([count |-> bs[key][1].count + 1,
                                   resetAt |-> bs[key][1].resetAt])]
RateLimitBuckets(bs, key, maxRequests, windowMs, t) ==
    LET current == bs[key]
    IN  IF NeedsFreshBucket(current, t)
        THEN [bs EXCEPT ![key] = Some([count |-> 1, resetAt |-> t + windowMs])]
        ELSE IF QuotaUsed(current, maxRequests) THEN bs
        ELSE [bs EXCEPT ![key] = Some([count |-> current[1].count + 1,
                                       resetAt |-> current[1].resetAt])]

\* POST /api/travel: the requests being handled at the same time; a handler
\* that has responded takes the next request
PostHandlers == {"h1", "h2", "h3"}
IdlePost == [pc |-> "idle", key |-> "", admitted |-> FALSE, at |-> 0, status |-> 0]

\* the requests of one client served at the same time
HandlerSlots == {"s1", "s2"}
IdleHandler ==
    [pc |-> "idle", kind |-> "", admitted |-> FALSE, status |-> 0, step |-> 0,
     effects |-> {}]

RateInit ==
    /\ buckets = [k \in AllKeys |-> None]
    /\ rlLast = [k \in AllKeys |-> None]
    /\ rlOpen = [k \in AllKeys |-> None]
    /\ rlCalls = [k \in AllKeys |-> 0]
    /\ rlAdmits = [k \in AllKeys |-> <<>>]
    /\ rq = [h \in PostHandlers |-> IdlePost]
    /\ hd = [s \in HandlerSlots |-> IdleHandler]

\* history: does the call at time t open a new window for the key?
OpensWindow(key, t) ==
    IF rlOpen[key] = None THEN TRUE ELSE t > rlOpen[key][1] + WindowMs

\* history: the admission times that a span of WindowMs + 1 ending at t holds
RecentAdmits(times, t) == SelectSeq(times, LAMBDA a : a >= t - WindowMs - 1)

\* one call of checkRateLimit: it runs from its first line to its return
\* without an await
RateLimitCall(key) ==
    /\ IF OpensWindow(key, now) THEN TRUE ELSE rlCalls[key] < MaxCallsPerWindow
    /\ buckets' = RateLimitBuckets(buckets, key, MaxRequestsOf(key), WindowMs, now)
    /\ rlLast' = [rlLast EXCEPT ![key] =
                    Some([at |-> now,
                          ret |-> RateLimitAllows(buckets, key, MaxRequestsOf(key), now)])]
    /\ rlOpen' = [rlOpen EXCEPT ![key] = IF OpensWindow(key, now) THEN Some(now) ELSE @]
    /\ rlCalls' = [rlCalls EXCEPT ![key] = IF OpensWindow(key, now) THEN 1 ELSE @ + 1]

CheckRateLimit(key) ==
    /\ RateLimitCall(key)
    /\ UNCHANGED <<rlAdmits, rq, hd, now, cacheVars, envVars, resolveVars, matrixVars, parseVars,
                   storeVars>>

\* POST up to its first await: the client key, checkRateLimit, and the 429
\* response or the start of request.json()
PostStarts(h, key) ==
    /\ rq[h].pc \in {"idle", "responded"}
    /\ RateLimitCall(key)
    /\ \E allowed \in {RateLimitAllows(buckets, key, MaxRequestsOf(key), now)} :
           rq' = [rq EXCEPT ![h] = [pc |-> IF allowed THEN "body" ELSE "responded",
                                    key |-> key, admitted |-> allowed, at |-> now,
                                    status |-> IF allowed THEN 0 ELSE 429]]
    /\ rlAdmits' = [rlAdmits EXCEPT ![key] =
                        IF RateLimitAllows(buckets, key, MaxRequestsOf(key), now)
                        THEN Append(RecentAdmits(@, now), now)
                        ELSE RecentAdmits(@, now)]
    /\ UNCHANGED <<hd, now, cacheVars, envVars, resolveVars, matrixVars, parseVars, storeVars>>

\* the rest of POST, from the await of request.json() to its response
PostStatuses == {200, 400, 500}
PostResponds(h, status) ==
    /\ rq[h].pc = "body"
    /\ rq' = [rq EXCEPT ![h].pc = "responded", ![h].status = status]
    /\ UNCHANGED <<now, cacheVars, buckets, rlLast, rlOpen, rlCalls, rlAdmits, hd, envVars,
                   resolveVars, matrixVars, parseVars, storeVars>>

\* What a handler awaits after the check, in the order of its code: the
\* link expansion fetch and the geocoding call of resolveCoordinatesFromInput,
\* the read and the write of the landmark store, the distance calls.
HandlerSteps(kind) ==
    CASE kind = "landmarks:get" -> <<"read">>
      [] kind = "landmarks:post" -> <<"fetch", "geocode", "read", "write">>
      [] kind = "landmarks:put" -> <<"fetch", "geocode", "read", "write">>
      [] kind = "landmarks:delete" -> <<"read", "write">>
      [] OTHER -> <<"fetch", "geocode", "read", "distance">>

\* statuses a handler answers with once the check has let it through: that
\* of its success, and 500 of its catch block
HandlerStatuses(kind) ==
    IF kind = "landmarks:post" THEN {201, 500} ELSE {200, 500}

\* if (!checkRateLimit(...)) { return errorResponse(..., 429); }
AfterCheckGoesOn(allowed) == "body"
AfterCheck(allowed) == IF allowed THEN "body" ELSE "responded"

\* a handler up to its first await: the client key, checkRateLimit, and the
\* 429 response or the first call of the try block
HandlerStarts(s, kind) ==
    /\ hd[s].pc \in {"idle", "responded"}
    /\ RateLimitCall(kind)
    /\ \E allowed \in {RateLimitAllows(buckets, kind, MaxRequestsOf(kind), now)} :
           hd' = [hd EXCEPT ![s] = [pc |-> AfterCheck(allowed), kind |-> kind,
                                    admitted |-> allowed,
                                    status |-> IF AfterCheck(allowed) = "responded"
                                               THEN 429 ELSE 0,
                                    step |-> 0, effects |-> {}]]
    /\ UNCHANGED <<rlAdmits, rq, now, cacheVars, envVars, resolveVars, matrixVars, parseVars,
                   storeVars>>

\* the handler goes on to a later await of its code: a store access or an
\* outbound call is made
HandlerActs(s, i) ==
    /\ hd[s].pc = "body"
    /\ i \in (hd[s].step + 1)..Len(HandlerSteps(hd[s].kind))
    /\ hd' = [hd EXCEPT ![s].step = i,
                        ![s].effects = @ \cup {HandlerSteps(hd[s].kind)[i]}]
    /\ UNCHANGED <<buckets, rlLast, rlOpen, rlCalls, rlAdmits, rq, now, cacheVars, envVars,
                   resolveVars, matrixVars, parseVars, storeVars>>

\* the handler returns its response
HandlerResponds(s, status) ==
    /\ hd[s].pc = "body"
    /\ status \in HandlerStatuses(hd[s].kind)
    /\ hd' = [hd EXCEPT ![s].pc = "responded", ![s].status = status]
    /\ UNCHANGED <<buckets, rlLast, rlOpen, rlCalls, rlAdmits, rq, now, cacheVars, envVars,
                   resolveVars, matrixVars, parseVars, storeVars>>

(***************************************************************************)
(* Strings and numbers. A string is a sequence of one-character strings.   *)
(***************************************************************************)
Digits == <<"0", "1", "2", "3", "4", "5", "6", "7", "8", "9">>
LowerLetters == <<"a", "b", "c", "d", "e", "f", "g", "h", "i", "j", "k", "l", "m",
                  "n", "o", "p", "q", "r", "s", "t", "u", "v", "w", "x", "y", "z">>
UpperLetters == <<"A", "B", "C", "D", "E", "F", "G", "H", "I", "J", "K", "L", "M",
                  "N", "O", "P", "Q", "R", "S", "T", "U", "V", "W", "X", "Y", "Z">>

\* (CHOOSE it \in {e : x \in {v}} : TRUE) is the value of e for x = v: it
\* names an intermediate value, as LET x == v IN e does, and writes v once
\* however often e uses x.
Range(f) == {f[i] : i \in DOMAIN f}

\* the least and the greatest element of a non-empty set of integers
Least(S) ==
        CHOOSE x \in S : \A y \in S : x <= y
Greatest(S) ==
        CHOOSE x \in S : \A y \in S : x >= y

Max2(a, b) == IF a >= b THEN a ELSE b

\* the concatenation of the sequences of a sequence
RECURSIVE Concat(_)
Concat(seqs) ==
    IF Len(seqs) = 0 THEN <<>>
    ELSE IF Len(seqs) = 1 THEN seqs[1]
    ELSE Concat(SubSeq(seqs, 1, Len(seqs) \div 2))
         \o Concat(SubSeq(seqs, Len(seqs) \div 2 + 1, Len(seqs)))

\* \d
IsDigit(c) == c \in Range(Digits)
\* \s, and the characters String.prototype.trim removes
IsSpace(c) == c \in {" ", "\t", "\n", "\r"}
IsAlpha(c) == c \in Range(LowerLetters) \cup Range(UpperLetters)

DigitValue(c) == (CHOOSE i \in DOMAIN Digits : Digits[i] = c) - 1

\* one character of String.prototype.toLowerCase
LowerChar(c) ==
    IF c \in Range(UpperLetters)
    THEN LowerLetters[CHOOSE i \in DOMAIN UpperLetters : UpperLetters[i] = c]
    ELSE c

\* String.prototype.toLowerCase
ToLowerCase(s) ==
        [i \in DOMAIN s |-> LowerChar(s[i])]

\* s.substring(i - 1, j): the characters i .. j, none when j < i
Sub(s, i, j) ==
        IF j < i THEN <<>> ELSE SubSeq(s, i, j)

\* the first index >= i whose character is not white space
SkipSpaces(s, i) ==
    Least({j \in i .. Len(s) : ~IsSpace(s[j])}
          \cup {IF i > Len(s) THEN i ELSE Len(s) + 1})

\* the last index <= j whose character is not white space
SkipSpacesBack(s, j) ==
    Greatest({k \in 1 .. j : ~IsSpace(s[k])} \cup {IF j < 1 THEN j ELSE 0})

\* String.prototype.trim
TrimKeepAll(s) == s
Trim(s) ==
        Sub(s, SkipSpaces(s, 1), SkipSpacesBack(s, Len(s)))

\* does s hold the characters of w at index i? (case-sensitive)
HasAt(s, i, w) ==
    /\ i >= 1
    /\ i + Len(w) - 1 <= Len(s)
    /\ \A j \in 1 .. Len(w) : s[i + j - 1] = w[j]

\* the same, ignoring case: the i flag of a regular expression
HasAtIgnoreCase(s, i, w) ==
    /\ i >= 1
    /\ i + Len(w) - 1 <= Len(s)
    /\ \A j \in 1 .. Len(w) : LowerChar(s[i + j - 1]) = LowerChar(w[j])

\* the first index >= i at which s holds w, or 0: String.prototype.indexOf + 1
IndexOfFrom(s, w, i) ==
    (CHOOSE it \in {(
    IF hits = {} THEN 0 ELSE Least(hits)
    ) : hits \in {{j \in i .. Len(s) - Len(w) + 1 : HasAt(s, j, w)}}} : TRUE)

\* the first index >= i whose character is in the set cs, or Len(s) + 1
FindChar(s, cs, i) ==
    Least({j \in i .. Len(s) : s[j] \in cs} \cup {Len(s) + 1})

\* the index just past the run of digits that starts at i: \d*
DigitsEnd(s, i) ==
    Least({j \in i .. Len(s) : ~IsDigit(s[j])}
          \cup {IF i > Len(s) THEN i ELSE Len(s) + 1})

\* the natural number a string of digits writes
RECURSIVE DigitsValue(_)
DigitsValue(ds) ==
    IF ds = <<>> THEN 0
    ELSE DigitsValue(Sub(ds, 1, Len(ds) - 1)) * 10 + DigitValue(ds[Len(ds)])

RECURSIVE Pow10(_)
Pow10(k) ==
        IF k = 0 THEN 1 ELSE 10 * Pow10(k - 1)

(***************************************************************************)
(* A JavaScript number is modelled exactly as a decimal fraction n / 10^k  *)
(* in lowest terms of k (no trailing zero in the fraction), or as a        *)
(* non-finite value (Infinity, as JSON.parse("1e999") yields).             *)
(***************************************************************************)
RECURSIVE Normal(_, _)
Normal(n, k) ==
    IF k > 0 /\ n % 10 = 0 THEN Normal(n \div 10, k - 1)
    ELSE [n |-> n, k |-> k, finite |-> TRUE]

Infinity == [n |-> 1, k |-> 0, finite |-> FALSE]

\* Number(raw) for raw matching -?\d+(\.\d+)?
ToNumberTruncated(raw) ==
    IF raw # <<>> /\ raw[1] = "-"
    THEN Normal(0 - DigitsValue(Sub(raw, 2, DigitsEnd(raw, 2) - 1)), 0)
    ELSE Normal(DigitsValue(Sub(raw, 1, DigitsEnd(raw, 1) - 1)), 0)
ToNumber(raw) ==
    LET neg == raw # <<>> /\ raw[1] = "-"
        d == IF neg THEN 2 ELSE 1
        e == DigitsEnd(raw, d)
        int == DigitsValue(Sub(raw, d, e - 1))
        frac == Sub(raw, e + 1, Len(raw))
        mag == int * Pow10(Len(frac)) + DigitsValue(frac)
    IN  Normal(IF neg THEN 0 - mag ELSE mag, Len(frac))

\* a <= b and a >= b for a finite number a and an integer b
NumLeqInt(a, b) ==
        a.n <= b * Pow10(a.k)
NumGeqInt(a, b) ==
        a.n >= b * Pow10(a.k)

(***************************************************************************)
(* Platform functions of the runtime: percent-encoding, decodeURIComponent *)
(* and the WHATWG URL parser behind "new URL(raw)", url.hostname,          *)
(* url.pathname, url.searchParams.get and url.toString. Modelled for       *)
(* ASCII input without IPv6 hosts and without "%2e" dot segments; a        *)
(* percent-escaped byte above 0x7F is one non-ASCII character in the       *)
(* lenient decoder and an URIError in decodeURIComponent.                  *)
(***************************************************************************)
\* the printable ASCII characters, 0x20 .. 0x7E (a string of the module cannot
\* hold a back quote, which is written BackQuote)
BackQuote == "bq"
Ascii == <<" ", "!", "\"", "#", "$", "%", "&", "'", "(", ")", "*", "+",
          ",", "-", ".", "/", "0", "1", "2", "3", "4", "5", "6", "7",
          "8", "9", ":", ";", "<", "=", ">", "?", "@", "A", "B", "C",
          "D", "E", "F", "G", "H", "I", "J", "K", "L", "M", "N", "O",
          "P", "Q", "R", "S", "T", "U", "V", "W", "X", "Y", "Z", "[",
          "\\", "]", "^", "_", BackQuote, "a", "b", "c", "d", "e", "f", "g",
          "h", "i", "j", "k", "l", "m", "n", "o", "p", "q", "r", "s",
          "t", "u", "v", "w", "x", "y", "z", "{", "|", "}", "~">>

OtherControlChar == "\f"    \* stands for a control character other than \t \n \r
NonAsciiChar == "U+"        \* stands for any one character above 0x7F
HexDigits == <<"0", "1", "2", "3", "4", "5", "6", "7", "8", "9",
               "A", "B", "C", "D", "E", "F">>

IsHex(c) ==
    c \in Range(HexDigits) \cup {"a", "b", "c", "d", "e", "f"}

HexValue(c) ==
    IF IsDigit(c) THEN DigitValue(c)
    ELSE CASE c \in {"a", "A"} -> 10 [] c \in {"b", "B"} -> 11 [] c \in {"c", "C"} -> 12
           [] c \in {"d", "D"} -> 13 [] c \in {"e", "E"} -> 14 [] OTHER -> 15

\* the character with the given code, code < 128
CharOfCode(code) ==
    IF code >= 32 /\ code <= 126 THEN Ascii[code - 31]
    ELSE IF code = 9 THEN "\t"
    ELSE IF code = 10 THEN "\n"
    ELSE IF code = 13 THEN "\r"
    ELSE OtherControlChar

\* "%XX" for a printable ASCII character
PercentEscape(c) ==
    LET code == (CHOOSE j \in DOMAIN Ascii : Ascii[j] = c) + 31
    IN  <<"%", HexDigits[(code \div 16) + 1], HexDigits[(code % 16) + 1]>>

\* percent-encode the characters of s that are in the encode set
PercentEncode(s, set) ==
    IF s = <<>> THEN <<>>
    ELSE Concat([j \in 1 .. Len(s) |->
                    IF s[j] \in set THEN PercentEscape(s[j]) ELSE <<s[j]>>])

PathEncodeSet == {" ", "\"", "#", "<", ">", "?", BackQuote, "{", "}"}
QueryEncodeSet == {" ", "\"", "#", "<", ">", "'"}
FragmentEncodeSet == {" ", "\"", "<", ">", BackQuote}

\* is there a well-formed escape "%XX" at index i?
IsEscapeAt(s, i) ==
    /\ i + 2 <= Len(s)
    /\ s[i] = "%" /\ IsHex(s[i + 1]) /\ IsHex(s[i + 2])

EscapeCode(s, i) ==
        16 * HexValue(s[i + 1]) + HexValue(s[i + 2])

\* can decodeURIComponent decode s from index i on? (no URIError)
CanDecodeFrom(s, i) ==
    \A j \in i .. Len(s) :
        s[j] = "%" => IsEscapeAt(s, j) /\ EscapeCode(s, j) < 128

\* percent-decoding from index i on; a malformed "%" stays as it is
PercentDecodeFrom(s, i) ==
    IF i > Len(s) THEN <<>>
    ELSE Concat([k \in 1 .. Len(s) - i + 1 |->
                    LET j == i + k - 1
                    IN  IF IsEscapeAt(s, j)
                        THEN <<IF EscapeCode(s, j) < 128 THEN CharOfCode(EscapeCode(s, j))
                               ELSE NonAsciiChar>>
                        ELSE IF \/ j - 1 >= i /\ IsEscapeAt(s, j - 1)
                                \/ j - 2 >= i /\ IsEscapeAt(s, j - 2)
                        THEN <<>>
                        ELSE <<s[j]>>])

\* decodeURIComponent: None stands for the URIError it throws
DecodeURIComponent(s) ==
    IF CanDecodeFrom(s, 1) THEN Some(PercentDecodeFrom(s, 1)) ELSE None

\* the pieces of s between the separator characters (String.prototype.split)
RECURSIVE SplitOn(_, _)
SplitOn(s, seps) ==
    LET e == FindChar(s, seps, 1)
    IN  IF e > Len(s) THEN <<s>>
        ELSE <<Sub(s, 1, e - 1)>> \o SplitOn(Sub(s, e + 1, Len(s)), seps)

\* the index of the last character of s that is in cs, or 0
LastIndexOf(s, cs, j) ==
    Greatest({k \in 1 .. j : s[k] \in cs} \cup {0})

SpecialSchemes == {<<"h", "t", "t", "p">>, <<"h", "t", "t", "p", "s">>,
                   <<"w", "s">>, <<"w", "s", "s">>, <<"f", "t", "p">>}

DefaultPort(scheme) ==
    CASE scheme = <<"h", "t", "t", "p">> -> <<"8", "0">>
      [] scheme = <<"w", "s">> -> <<"8", "0">>
      [] scheme = <<"h", "t", "t", "p", "s">> -> <<"4", "4", "3">>
      [] scheme = <<"w", "s", "s">> -> <<"4", "4", "3">>
      [] scheme = <<"f", "t", "p">> -> <<"2", "1">>
      [] OTHER -> <<>>

IsSchemeChar(c) ==
        IsAlpha(c) \/ IsDigit(c) \/ c \in {"+", "-", "."}

ForbiddenHostChars ==
    {" ", "#", "/", ":", "<", ">", "?", "@", "[", "\\", "]", "^", "|", "%",
     "\t", "\n", "\r", OtherControlChar}

\* the path segments after the removal of "." and ".." segments
RECURSIVE NormalSegments(_, _)
NormalSegments(segs, done) ==
    IF segs = <<>> THEN done
    ELSE LET seg == segs[1]
             last == Len(segs) = 1
         IN  IF seg = <<".", ".">>
             THEN NormalSegments(Tail(segs),
                      (IF done = <<>> THEN done ELSE Sub(done, 1, Len(done) - 1))
                      \o (IF last THEN <<<<>>>> ELSE <<>>))
             ELSE IF seg = <<".">>
             THEN NormalSegments(Tail(segs), done \o (IF last THEN <<<<>>>> ELSE <<>>))
             ELSE NormalSegments(Tail(segs), Append(done, seg))

\* "/" before every segment
RECURSIVE JoinPath(_)
JoinPath(segs) ==
    IF segs = <<>> THEN <<>> ELSE <<"/">> \o segs[1] \o JoinPath(Tail(segs))

\* the pathname of a path that starts with a slash
NormalPath(raw, seps) ==
    JoinPath(NormalSegments(SplitOn(PercentEncode(Sub(raw, 2, Len(raw)), PathEncodeSet),
                                    seps), <<>>))

\* the last label of a host is a number: the host is parsed as an IPv4 address
EndsInNumber(host) ==
    (CHOOSE it \in {(
    LET last == IF Len(labels) > 1 /\ labels[Len(labels)] = <<>>
                THEN labels[Len(labels) - 1] ELSE labels[Len(labels)]
    IN  last # <<>> /\ DigitsEnd(last, 1) = Len(last) + 1
    ) : labels \in {SplitOn(host, {"."})}} : TRUE)

\* is the host of an authority one the parser accepts?
HostOk(special, at, hostRaw, portRaw) ==
    /\ special => hostRaw # <<>>
    /\ (at > 0) => hostRaw # <<>>
    /\ Range(hostRaw) \cap ForbiddenHostChars = {}
    /\ DigitsEnd(portRaw, 1) = Len(portRaw) + 1
    /\ Len(portRaw) <= 5 /\ DigitsValue(portRaw) <= 65535
    /\ special /\ EndsInNumber(hostRaw) =>
          \A l \in Range(SplitOn(hostRaw, {"."})) :
              l # <<>> /\ DigitsEnd(l, 1) = Len(l) + 1
              /\ Len(l) <= 3 /\ DigitsValue(l) <= 255

\* the URL record of a scheme, an authority (credentials, host, port), a
\* pathname, a query and a fragment; None when the host is not accepted
UrlOfAuthority(scheme, hasAuth, authority, pathname, query, fragment) ==
    LET special == scheme \in SpecialSchemes
        at == LastIndexOf(authority, {"@"}, Len(authority))
        credentials == Sub(authority, 1, at - 1)
        hostPort == Sub(authority, at + 1, Len(authority))
        portAt == FindChar(hostPort, {":"}, 1)
        hostRaw == Sub(hostPort, 1, portAt - 1)
        host == IF special THEN ToLowerCase(hostRaw) ELSE hostRaw
        portRaw == Sub(hostPort, portAt + 1, Len(hostPort))
        port == IF portRaw = DefaultPort(scheme) THEN <<>> ELSE portRaw
    IN  IF hasAuth /\ ~HostOk(special, at, hostRaw, portRaw) THEN None
        ELSE Some([scheme |-> scheme,
                   hostname |-> IF hasAuth THEN host ELSE <<>>,
                   pathname |-> pathname,
                   query |-> query,
                   href |-> scheme \o <<":">>
                            \o (IF hasAuth
                                THEN <<"/", "/">>
                                     \o (IF at > 0 THEN credentials \o <<"@">> ELSE <<>>)
                                     \o host
                                     \o (IF port # <<>> THEN <<":">> \o port ELSE <<>>)
                                ELSE <<>>)
                            \o pathname
                            \o (IF query # None THEN <<"?">> \o query[1] ELSE <<>>)
                            \o (IF fragment # None THEN <<"#">> \o fragment[1]
                                ELSE <<>>)])

\* the URL of a scheme and of what is left of the input when its query and
\* fragment are taken off: the authority and the path
UrlOfParts(scheme, main, query, fragment) ==
    LET special == scheme \in SpecialSchemes
        slashes == IF special THEN {"/", "\\"} ELSE {"/"}
        \* the authority: after any slashes (special) or after "//"
        hasAuth == special \/ HasAt(main, 1, <<"/", "/">>)
        a0 == IF special THEN FindChar(main, Range(main) \ slashes, 1) ELSE 3
        a1 == FindChar(main, slashes, a0)
        pathRaw == IF hasAuth THEN Sub(main, a1, Len(main)) ELSE main
        opaque == ~hasAuth /\ ~HasAt(main, 1, <<"/">>)
    IN  UrlOfAuthority(scheme, hasAuth, Sub(main, a0, a1 - 1),
                       IF opaque THEN main
                       ELSE IF pathRaw = <<>> THEN (IF special THEN <<"/">> ELSE <<>>)
                       ELSE NormalPath(pathRaw, slashes),
                       query, fragment)

\* the URL of a scheme and the input after its colon
UrlAfterScheme(scheme, rest) ==
    LET special == scheme \in SpecialSchemes
        hash == FindChar(rest, {"#"}, 1)
        fragment == IF hash <= Len(rest)
                    THEN Some(PercentEncode(Sub(rest, hash + 1, Len(rest)),
                                            FragmentEncodeSet))
                    ELSE None
        noFrag == Sub(rest, 1, hash - 1)
        qm == FindChar(noFrag, {"?"}, 1)
        query == IF qm <= Len(noFrag)
                 THEN Some(PercentEncode(Sub(noFrag, qm + 1, Len(noFrag)),
                           IF special THEN QueryEncodeSet
                           ELSE QueryEncodeSet \ {"'"}))
                 ELSE None
    IN  UrlOfParts(scheme, Sub(noFrag, 1, qm - 1), query, fragment)

\* new URL(raw): None stands for the TypeError it throws
ParseUrl(raw) ==
    (CHOOSE it \in {(
    LET colon == FindChar(s, {":"}, 1)
    IN  IF ~(/\ colon <= Len(s) /\ colon >= 2 /\ IsAlpha(s[1])
             /\ \A j \in 2 .. colon - 1 : IsSchemeChar(s[j]))
        THEN None
        ELSE UrlAfterScheme(ToLowerCase(Sub(s, 1, colon - 1)),
                            Sub(s, colon + 1, Len(s)))
    ) : s \in {SelectSeq(Trim(raw), LAMBDA c : c \notin {"\t", "\n", "\r"})}} : TRUE)

\* "+" becomes a space in application/x-www-form-urlencoded
PlusToSpace(s) ==
        [j \in DOMAIN s |-> IF s[j] = "+" THEN " " ELSE s[j]]

\* one name or value of the query string, decoded
FormDecode(s) == PercentDecodeFrom(PlusToSpace(s), 1)

\* the first value among the pairs whose name is key, or None
RECURSIVE FirstValue(_, _)
FirstValue(pairs, key) ==
    IF pairs = <<>> THEN None
    ELSE LET eq == FindChar(pairs[1], {"="}, 1)
             name == FormDecode(Sub(pairs[1], 1, eq - 1))
             value == FormDecode(Sub(pairs[1], eq + 1, Len(pairs[1])))
         IN  IF pairs[1] # <<>> /\ name = key THEN Some(value)
             ELSE FirstValue(Tail(pairs), key)

\* url.searchParams.get(key)
SearchParamsGet(url, key) ==
    IF url.query = None THEN None
    ELSE FirstValue(SplitOn(url.query[1], {"&"}), key)

(***************************************************************************)
(* types.ts (lib/coordinates): parsing of literal coordinates              *)
(***************************************************************************)
\* isValidCoordinates
IsValidCoordinatesLatOnly(lat, lng) ==
    /\ lat.finite /\ lng.finite
    /\ NumGeqInt(lat, -90) /\ NumLeqInt(lat, 90)
IsValidCoordinates(lat, lng) ==
    /\ lat.finite /\ lng.finite
    /\ NumGeqInt(lat, -90) /\ NumLeqInt(lat, 90)
    /\ NumGeqInt(lng, -180) /\ NumLeqInt(lng, 180)

\* toCoordinates
ToCoordinates(latRaw, lngRaw) ==
    (CHOOSE it \in {(
    IF ~IsValidCoordinates(lat, lng) THEN None
    ELSE Some([lat |-> lat, lng |-> lng])
    ) : lat \in {ToNumber(latRaw)}, lng \in {ToNumber(lngRaw)}} : TRUE)

(***************************************************************************)
(* The number pattern -?\d{1,3}(?:\.\d+)? of the three regular             *)
(* expressions. As the first group it is followed by "," or "!4d" or       *)
(* \s*, : none of them matches a digit or ".", so backtracking cannot give *)
(* up digits and the group matches the whole run (of at most 3 digits)     *)
(* and the whole fraction, or the attempt fails. The result is the index   *)
(* just past the number, or 0.                                             *)
(***************************************************************************)
LeadNumberEnd(s, i) ==
    LET d == IF i <= Len(s) /\ s[i] = "-" THEN i + 1 ELSE i
        e == DigitsEnd(s, d)
    IN  IF e = d \/ e - d > 3 THEN 0
        ELSE IF e <= Len(s) /\ s[e] = "."
             THEN (IF DigitsEnd(s, e + 1) > e + 1 THEN DigitsEnd(s, e + 1) ELSE 0)
             ELSE e

\* As the last group nothing follows it: it is greedy, at most 3 digits and
\* then the fraction when a "." and a digit follow them.
TailNumberEnd(s, i) ==
    LET d == IF i <= Len(s) /\ s[i] = "-" THEN i + 1 ELSE i
        r == DigitsEnd(s, d)
        e == IF r - d > 3 THEN d + 3 ELSE r
    IN  IF r = d THEN 0
        ELSE IF e = r /\ e <= Len(s) /\ s[e] = "." /\ DigitsEnd(s, e + 1) > e + 1
             THEN DigitsEnd(s, e + 1)
             ELSE e

NoMatch == <<>>
Groups(s, a1, a2, b1, b2) ==
        <<Sub(s, a1, a2), Sub(s, b1, b2)>>

\* AT_COORDINATES_REGEX attempted at index p
AtMatchAt(s, p) ==
    IF ~HasAt(s, p, <<"@">>) THEN NoMatch
    ELSE LET a == LeadNumberEnd(s, p + 1)
         IN  IF a = 0 \/ ~HasAt(s, a, <<",">>) THEN NoMatch
             ELSE LET b == TailNumberEnd(s, a + 1)
                  IN  IF b = 0 THEN NoMatch
                      ELSE Groups(s, p + 1, a - 1, a + 1, b - 1)

\* EMBED_COORDINATES_REGEX attempted at index p
EmbedMatchAt(s, p) ==
    IF ~HasAt(s, p, <<"!", "3", "d">>) THEN NoMatch
    ELSE LET a == LeadNumberEnd(s, p + 3)
         IN  IF a = 0 \/ ~HasAt(s, a, <<"!", "4", "d">>) THEN NoMatch
             ELSE LET b == TailNumberEnd(s, a + 3)
                  IN  IF b = 0 THEN NoMatch
                      ELSE Groups(s, p + 3, a - 1, a + 3, b - 1)

\* LAT_LNG_PAIR_REGEX attempted at index p
PairMatchAt(s, p) ==
    LET a == LeadNumberEnd(s, p)
    IN  IF a = 0 THEN NoMatch
        ELSE LET c == SkipSpaces(s, a)
             IN  IF ~HasAt(s, c, <<",">>) THEN NoMatch
                 ELSE LET g == SkipSpaces(s, c + 1)
                          b == TailNumberEnd(s, g)
                      IN  IF b = 0 THEN NoMatch
                          ELSE Groups(s, p, a - 1, g, b - 1)

\* String.prototype.match without the g flag: the leftmost match
AtMatchFrom(s, p) ==
    (CHOOSE it \in {(
    IF hits = {} THEN NoMatch ELSE AtMatchAt(s, Least(hits))
    ) : hits \in {{q \in p .. Len(s) : AtMatchAt(s, q) # NoMatch}}} : TRUE)

EmbedMatchFrom(s, p) ==
    (CHOOSE it \in {(
    IF hits = {} THEN NoMatch ELSE EmbedMatchAt(s, Least(hits))
    ) : hits \in {{q \in p .. Len(s) : EmbedMatchAt(s, q) # NoMatch}}} : TRUE)

PairMatchFrom(s, p) ==
    (CHOOSE it \in {(
    IF hits = {} THEN NoMatch ELSE PairMatchAt(s, Least(hits))
    ) : hits \in {{q \in p .. Len(s) : PairMatchAt(s, q) # NoMatch}}} : TRUE)

\* parseLatLngPair
ParseLatLngPair(raw) ==
    (CHOOSE it \in {(
    IF match = NoMatch THEN None
    ELSE ToCoordinates(match[1], match[2])
    ) : match \in {PairMatchFrom(raw, 1)}} : TRUE)

\* the query parameters extractCoordinatesFromGoogleMapsUrl scans, in order
CoordinateParamsReversed ==
    <<<<"s", "a", "d", "d", "r">>, <<"d", "a", "d", "d", "r">>,
      <<"o", "r", "i", "g", "i", "n">>,
      <<"d", "e", "s", "t", "i", "n", "a", "t", "i", "o", "n">>,
      <<"s", "l", "l">>, <<"l", "l">>, <<"q", "u", "e", "r", "y">>, <<"q">>>>
CoordinateParams ==
    <<<<"q">>, <<"q", "u", "e", "r", "y">>, <<"l", "l">>, <<"s", "l", "l">>,
      <<"d", "e", "s", "t", "i", "n", "a", "t", "i", "o", "n">>,
      <<"o", "r", "i", "g", "i", "n">>, <<"d", "a", "d", "d", "r">>,
      <<"s", "a", "d", "d", "r">>>>

\* the loop over paramsToCheck: the first parameter whose value parses
RECURSIVE FirstPairInParams(_, _)
FirstPairInParams(url, keys) ==
    IF keys = <<>> THEN None
    ELSE (CHOOSE it \in {(
         IF value = None \/ value = Some(<<>>)
         THEN FirstPairInParams(url, Tail(keys))
         ELSE (CHOOSE it \in {(
              IF parsed # None THEN parsed
              ELSE FirstPairInParams(url, Tail(keys))
              ) : parsed \in {ParseLatLngPair(value[1])}} : TRUE)
         ) : value \in {SearchParamsGet(url, keys[1])}} : TRUE)

\* the try block of extractCoordinatesFromGoogleMapsUrl
CoordinatesFromUrl(trimmed) ==
    (CHOOSE it \in {(
    IF url = None THEN None
    ELSE (CHOOSE it \in {(
         IF parsed # None THEN parsed
         ELSE (CHOOSE it \in {(
              IF decoded = None THEN None
              ELSE ParseLatLngPair(decoded[1])
              ) : decoded \in {DecodeURIComponent(url[1].pathname)}} : TRUE)
         ) : parsed \in {FirstPairInParams(url[1], CoordinateParams)}} : TRUE)
    ) : url \in {ParseUrl(trimmed)}} : TRUE)

\* the coordinates of a regular expression match, when it has valid ones
MatchCoordinates(match) ==
    IF match = NoMatch THEN None ELSE ToCoordinates(match[1], match[2])

\* extractCoordinatesFromGoogleMapsUrl
ExtractCoordinatesFromGoogleMapsUrl(input) ==
    (CHOOSE it \in {(
    (CHOOSE it \in {(
    IF atCoords # None THEN atCoords
    ELSE (CHOOSE it \in {(
         IF embedCoords # None THEN embedCoords
         ELSE CoordinatesFromUrl(trimmed)
         ) : embedCoords \in {MatchCoordinates(EmbedMatchFrom(trimmed, 1))}} : TRUE)
    ) : atCoords \in {MatchCoordinates(AtMatchFrom(trimmed, 1))}} : TRUE)
    ) : trimmed \in {Trim(input)}} : TRUE)

\* replace(/\s+/g, " "): every run of white space becomes one space (the
\* first character of a run becomes the space, the others are dropped)
Dropped == ""
CollapseRuns(s, set) ==
    IF s = <<>> THEN <<>>
    ELSE SelectSeq([j \in 1 .. Len(s) |->
                       IF s[j] \notin set THEN s[j]
                       ELSE IF j > 1 /\ s[j - 1] \in set THEN Dropped
                       ELSE " "],
                   LAMBDA c : c # Dropped)

WhiteSpace == {" ", "\t", "\n", "\r"}

\* cleanCandidate
CleanCandidate(value) ==
    LET noLoc == IF HasAtIgnoreCase(value, 1, <<"l", "o", "c", ":">>)
                 THEN Sub(value, 5, Len(value)) ELSE value
    IN  Trim(CollapseRuns(PlusToSpace(noLoc), WhiteSpace))

\* safeDecode
SafeDecode(value) ==
    (CHOOSE it \in {(
    IF decoded = None THEN value ELSE decoded[1]
    ) : decoded \in {DecodeURIComponent(value)}} : TRUE)

\* the query parameters extractGeocodeCandidates collects, in order
CandidateParams ==
    <<<<"q">>, <<"q", "u", "e", "r", "y">>,
      <<"d", "e", "s", "t", "i", "n", "a", "t", "i", "o", "n">>,
      <<"o", "r", "i", "g", "i", "n">>, <<"d", "a", "d", "d", "r">>,
      <<"s", "a", "d", "d", "r">>>>

\* the loop over paramsToCheck: the values that are present and not empty
RECURSIVE ParamValues(_, _)
ParamValues(url, keys) ==
    IF keys = <<>> THEN <<>>
    ELSE (CHOOSE it \in {(
         (IF value = None \/ value = Some(<<>>) THEN <<>> ELSE <<value[1]>>)
         \o ParamValues(url, Tail(keys))
         ) : value \in {SearchParamsGet(url, keys[1])}} : TRUE)

\* path.match(/\/word\/([^/]+)/i)?.[1]: the segment after the leftmost
\* "/word/" that a character other than "/" follows, as a list of 0 or 1
SegmentAfter(path, word, p) ==
    (CHOOSE it \in {(
    IF hits = {} THEN <<>>
    ELSE (CHOOSE it \in {(
         <<Sub(path, q + Len(word), FindChar(path, {"/"}, q + Len(word)) - 1)>>
         ) : q \in {Least(hits)}} : TRUE)
    ) : hits \in {{q \in p .. Len(path) - Len(word) :
                      /\ HasAtIgnoreCase(path, q, word)
                      /\ path[q + Len(word)] # "/"}}} : TRUE)

\* replace(/\/@.*/, ""): "." does not match a line terminator
StripViewport(path) ==
    LET p == IndexOfFrom(path, <<"/", "@">>, 1)
    IN  IF p = 0 THEN path
        ELSE Sub(path, 1, p - 1)
             \o Sub(path, FindChar(path, {"\n", "\r"}, p + 2), Len(path))

\* the path as search text
PathText(decodedPath) ==
    Trim(CollapseRuns(CollapseRuns(StripViewport(decodedPath), {"/", "_", "-"}),
                      WhiteSpace))

\* the candidates of a URL before cleaning, in the order they are pushed
RawCandidates(url, trimmed) ==
    (CHOOSE it \in {(
    ParamValues(url, CandidateParams)
    \o SegmentAfter(decodedPath, <<"/", "p", "l", "a", "c", "e", "/">>, 1)
    \o SegmentAfter(decodedPath, <<"/", "s", "e", "a", "r", "c", "h", "/">>, 1)
    \o (CHOOSE it \in {(
       IF pathText # <<>> /\ pathText # <<"/">> THEN <<pathText>> ELSE <<>>
       ) : pathText \in {PathText(decodedPath)}} : TRUE)
    \o <<trimmed>>
    ) : decodedPath \in {SafeDecode(url.pathname)}} : TRUE)

\* is a cleaned candidate kept? not empty, and not a lat,lng pair
KeepsEveryCandidate(cleaned) == cleaned # <<>>
KeepsCandidate(cleaned) ==
        cleaned # <<>> /\ ParseLatLngPair(cleaned) = None

\* unique.add(x) on a Set, which keeps the insertion order
SetAddAgain(set, x) == Append(set, x)
SetAdd(set, x) ==
        IF x \in Range(set) THEN set ELSE Append(set, x)

\* the loop that cleans, filters and collects the candidates
RECURSIVE UniqueCleaned(_, _)
UniqueCleaned(rawCandidates, unique) ==
    IF rawCandidates = <<>> THEN unique
    ELSE (CHOOSE it \in {(
         UniqueCleaned(Tail(rawCandidates),
                       IF KeepsCandidate(cleaned) THEN SetAdd(unique, cleaned)
                       ELSE unique)
         ) : cleaned \in {CleanCandidate(rawCandidates[1])}} : TRUE)

\* extractGeocodeCandidates
ExtractGeocodeCandidates(input) ==
    (CHOOSE it \in {(
    IF trimmed = <<>> THEN <<>>
    ELSE (CHOOSE it \in {(
         IF url = None THEN <<trimmed>>
         ELSE UniqueCleaned(RawCandidates(url[1], trimmed), <<>>)
         ) : url \in {ParseUrl(trimmed)}} : TRUE)
    ) : trimmed \in {Trim(input)}} : TRUE)

(***************************************************************************)
(* google-maps.ts: short-link expansion, geocoding, resolution             *)
(***************************************************************************)
GeocodeTtlMs == 86400000
ShortUrlTtlMs == 86400000
ExpandTimeoutMs == 10000
FetchJsonTimeoutMs == 15000

MaxResolves == 2        \* resolveCoordinatesFromInput calls in one behaviour
MaxAdvances == 2        \* clock jumps in one behaviour

\* SHORT_MAPS_HOSTS
HostMapsAppGooGl ==
    <<"m", "a", "p", "s", ".", "a", "p", "p", ".", "g", "o", "o", ".", "g", "l">>
ShortMapsHosts == {HostMapsAppGooGl, <<"g", "o", "o", ".", "g", "l">>, <<"g", ".", "c", "o">>}

\* normalizeUrl
NormalizeUrl(raw) == ParseUrl(Trim(raw))

\* shouldExpandShortMapsUrl
ShouldExpandAnyShortHost(url) == ToLowerCase(url.hostname) \in ShortMapsHosts
ShouldExpandShortMapsUrl(url) ==
    LET host == ToLowerCase(url.hostname)
        path == ToLowerCase(url.pathname)
    IN  IF host \notin ShortMapsHosts THEN FALSE
        ELSE IF host = HostMapsAppGooGl THEN TRUE
        ELSE \/ IndexOfFrom(path, <<"/", "m", "a", "p", "s">>, 1) # 0
             \/ HasAt(path, 1, <<"/", "k", "g", "s">>)

\* the inputs of resolveCoordinatesFromInput in the model
\* the plain text " Soho "
InPlainText ==
    <<" ", "S", "o", "h", "o", " ">>
\* https://m.co/?q=40.7,-74
InQueryPair ==
    <<"h", "t", "t", "p", "s", ":", "/", "/", "m", ".", "c", "o", "/", "?", "q",
      "=", "4", "0", ".", "7", ",", "-", "7", "4">>
\* https://maps.app.goo.gl/Soho
InShortLink ==
    <<"h", "t", "t", "p", "s", ":", "/", "/", "m", "a", "p", "s", ".", "a", "p",
      "p", ".", "g", "o", "o", ".", "g", "l", "/", "S", "o", "h", "o">>
\* https://goo.gl/maps/@1,2
InShortWithPair ==
    <<"h", "t", "t", "p", "s", ":", "/", "/", "g", "o", "o", ".", "g", "l", "/",
      "m", "a", "p", "s", "/", "@", "1", ",", "2">>
\* the plain text "SOHO"
InOtherCase ==
    <<"S", "O", "H", "O">>
\* " HTTPS://MAPS.APP.GOO.GL/Soho": the short link written another way
InShortLinkOtherwise ==
    <<" ", "H", "T", "T", "P", "S", ":", "/", "/", "M", "A", "P", "S", ".", "A", "P",
      "P", ".", "G", "O", "O", ".", "G", "L", "/", "S", "o", "h", "o">>
\* https://goo.gl/x
InOtherPath ==
    <<"h", "t", "t", "p", "s", ":", "/", "/", "g", "o", "o", ".", "g", "l", "/", "x">>
\* https://goo.gl/MAPS/x
InCapitalPath ==
    <<"h", "t", "t", "p", "s", ":", "/", "/", "g", "o", "o", ".", "g", "l", "/",
      "M", "A", "P", "S", "/", "x">>
ResolveInputs ==
    {InPlainText, InQueryPair, InShortLink, InShortWithPair, InOtherCase,
     InShortLinkOtherwise, InOtherPath, InCapitalPath}

\* response.url of the expansion fetch: a final URL, or none
\* https://m.co/place/A/@3,4
FinalWithPair ==
    <<"h", "t", "t", "p", "s", ":", "/", "/", "m", ".", "c", "o", "/", "p", "l",
      "a", "c", "e", "/", "A", "/", "@", "3", ",", "4">>
\* https://m.co/?q=Soho
FinalPlace ==
    <<"h", "t", "t", "p", "s", ":", "/", "/", "m", ".", "c", "o", "/", "?", "q",
      "=", "S", "o", "h", "o">>

FinalUrls == {FinalWithPair, FinalPlace, <<>>}

\* Every string resolveCoordinatesFromInput can hold in the model, and the
\* pure functions of coordinates.ts and normalizeUrl tabulated over them
ResolveStrings == {Trim(input) : input \in ResolveInputs} \cup (FinalUrls \ {<<>>})
UrlOf == [text \in ResolveStrings |-> NormalizeUrl(text)]
LiteralOf == [text \in ResolveStrings |-> ExtractCoordinatesFromGoogleMapsUrl(text)]
CandidatesOf == [text \in ResolveStrings |-> ExtractGeocodeCandidates(text)]

\* how the fetch of maybeExpandShortMapsUrl settles
FetchOutcomes ==
    {[kind |-> "response", url |-> u] : u \in FinalUrls}
    \cup {[kind |-> "network error", url |-> <<>>], [kind |-> "abort", url |-> <<>>]}

\* what maybeExpandShortMapsUrl does when its fetch has settled: the string
\* it returns, or the error it throws
ExpandRethrows(outcome, trimmed) ==
    IF outcome.kind = "response"
    THEN [threw |-> FALSE, cached |-> TRUE,
          value |-> IF outcome.url # <<>> THEN outcome.url ELSE trimmed]
    ELSE [threw |-> TRUE, cached |-> FALSE, value |-> <<>>]
ExpandSettledCachesFallback(outcome, trimmed) ==
    [threw |-> FALSE, cached |-> TRUE,
     value |-> IF outcome.kind = "response" /\ outcome.url # <<>> THEN outcome.url
               ELSE trimmed]
ExpandSettled(outcome, trimmed) ==
    IF outcome.kind = "response"
    THEN [threw |-> FALSE, cached |-> TRUE,
          value |-> IF outcome.url # <<>> THEN outcome.url ELSE trimmed]
    ELSE [threw |-> FALSE, cached |-> FALSE, value |-> trimmed]

(***************************************************************************)
(* The answers of the Geocoding API, as fetchJson and geocodeCandidate see *)
(* them: the transport fails, or a payload arrives with a status and       *)
(* maybe results[0].geometry.location, whose lat and lng may be of any     *)
(* JSON type.                                                              *)
(***************************************************************************)
Num(n, k) == [n |-> n, k |-> k, finite |-> TRUE]
JsNumber(x) == [type |-> "number", value |-> x]
JsString == [type |-> "string", value |-> Num(0, 0)]
Location(lat, lng) == Some([lat |-> lat, lng |-> lng])
Payload(status, location) ==
    [kind |-> "payload", status |-> status, location |-> location]
TransportFailure(kind) == [kind |-> kind, status |-> "", location |-> None]

GeocodeAnswers ==
    {TransportFailure("network error"), TransportFailure("abort"),
     TransportFailure("http status"),
     Payload("ZERO_RESULTS", None),
     Payload("OVER_QUERY_LIMIT", None),
     Payload("OK", None),
     Payload("OK", Location(JsString, JsNumber(Num(2, 0)))),
     Payload("OK", Location(JsNumber(Num(515, 1)), JsNumber(Num(-1, 1)))),
     Payload("OK", Location(JsNumber(Num(91, 0)), JsNumber(Infinity)))}

\* payload.status !== "OK" (after ZERO_RESULTS has returned null): throw
IsOtherStatusNever(status) == FALSE
IsOtherStatus(status) == status # "OK"

\* !location || typeof location.lat !== "number" || typeof location.lng !== "number"
LacksLocation(location) ==
    IF location = None THEN TRUE
    ELSE location[1].lat.type # "number" \/ location[1].lng.type # "number"

\* geocodeCandidate after its await: what it does with the provider's answer
GeocodeOutcome(answer) ==
    IF answer.kind # "payload" THEN [kind |-> "throw", coords |-> None]
    ELSE IF answer.status = "ZERO_RESULTS" THEN [kind |-> "null", coords |-> None]
    ELSE IF IsOtherStatus(answer.status) THEN [kind |-> "throw", coords |-> None]
    ELSE IF LacksLocation(answer.location) THEN [kind |-> "null", coords |-> None]
    ELSE [kind |-> "coords",
          coords |-> Some([lat |-> answer.location[1].lat.value,
                           lng |-> answer.location[1].lng.value])]

\* parseCandidates
ParseCandidatesOriginalFirst(expandedInput, trimmed) ==
    IF expandedInput = trimmed THEN <<trimmed>> ELSE <<trimmed, expandedInput>>
ParseCandidates(expandedInput, trimmed) ==
    IF expandedInput = trimmed THEN <<trimmed>> ELSE <<expandedInput, trimmed>>

\* the first loop of resolveCoordinatesFromInput: the first literal coordinates
RECURSIVE FirstLiteral(_)
FirstLiteral(candidates) ==
    IF candidates = <<>> THEN None
    ELSE (CHOOSE it \in {(
         IF parsed # None THEN parsed ELSE FirstLiteral(Tail(candidates))
         ) : parsed \in {LiteralOf[candidates[1]]}} : TRUE)

\* geocodeCandidates.add(candidate) for every candidate of the list
RECURSIVE AddAllAgain(_, _)
AddAllAgain(set, candidates) ==
    IF candidates = <<>> THEN set
    ELSE AddAllAgain(Append(set, candidates[1]), Tail(candidates))
RECURSIVE AddAll(_, _)
AddAll(set, candidates) ==
    IF candidates = <<>> THEN set
    ELSE AddAll(SetAdd(set, candidates[1]), Tail(candidates))

\* the second loop: the geocode candidates of the sources, first seen first
RECURSIVE GeocodeCandidates(_, _)
GeocodeCandidates(sources, set) ==
    IF sources = <<>> THEN set
    ELSE GeocodeCandidates(Tail(sources),
                           AddAll(set, CandidatesOf[sources[1]]))

NoAnswer == [kind |-> "cached", status |-> "", location |-> None]
NoFetch == [kind |-> "none", url |-> <<>>]

IdleResolve ==
    [pc |-> "idle", input |-> <<>>, trimmed |-> <<>>, expanded |-> <<>>,
     parseCandidates |-> <<>>, geocodeCandidates |-> <<>>, index |-> 0,
     result |-> None, error |-> "", started |-> 0,
     fetches |-> 0, fetchOutcome |-> NoFetch, trace |-> <<>>, runs |-> 0,
     last |-> None, lastExpansion |-> None, timers |-> {}]

\* finally { clearTimeout(timeout); }: the timer is cleared whether the try
\* block has returned or thrown
ClearTimeoutUnlessThrown(timers, timer, threw) ==
    IF threw THEN timers ELSE timers \ {timer}
ClearTimeout(timers, timer, threw) == timers \ {timer}

\* const cacheKey = parsed.toString()
ShortUrlCacheKeyAsTyped(parsed, trimmed) == trimmed
ShortUrlCacheKey(parsed, trimmed) == parsed.href

\* const cacheKey = candidate.toLowerCase()
GeocodeCacheKeyAsIs(candidate) == candidate
GeocodeCacheKey(candidate) == ToLowerCase(candidate)

\* The third loop up to its next await: geocodeCandidate for the candidate at
\* index i reads the cache, then the API key, then starts the provider call.
ProbeCandidate(r, i, store, key, t) ==
    IF i > Len(r.geocodeCandidates)
    THEN [rs |-> [r EXCEPT !.pc = "done", !.result = None, !.index = i],
          geocodeCache |-> store]
    ELSE \* the candidate, its cache key, geocodeCache.get(cacheKey) and the
         \* store that get leaves
         (CHOOSE it \in {(
         IF cached # None
             THEN [rs |-> [r EXCEPT !.pc = "done", !.result = cached, !.index = i,
                                    !.trace = Append(@, [candidate |-> candidate,
                                                         via |-> "cache",
                                                         answer |-> NoAnswer])],
                   geocodeCache |-> after]
             ELSE IF ~key
             THEN [rs |-> [r EXCEPT !.pc = "failed", !.index = i,
                                    !.error = "GOOGLE_MAPS_API_KEY is not configured."],
                   geocodeCache |-> after]
             ELSE [rs |-> [r EXCEPT !.pc = "geocoding", !.index = i, !.started = t,
                                    !.timers = @ \cup {"fetchJson"}],
                   geocodeCache |-> after]
         ) : candidate \in {r.geocodeCandidates[i]},
             cached \in {CacheGetValue(store, GeocodeCacheKey(r.geocodeCandidates[i]), t)},
             after \in {CacheGetStore(store, GeocodeCacheKey(r.geocodeCandidates[i]), t)}}
           : TRUE)

\* resolveCoordinatesFromInput from the end of the expansion to its next await
AfterExpansion(r, expandedInput, store, key, t) ==
    (CHOOSE it \in {(
    (CHOOSE it \in {(
    LET r1 == [r EXCEPT !.expanded = expandedInput, !.parseCandidates = candidates]
    IN  IF literal # None
        THEN [rs |-> [r1 EXCEPT !.pc = "done", !.result = literal],
              geocodeCache |-> store]
        ELSE ProbeCandidate([r1 EXCEPT !.geocodeCandidates =
                                           GeocodeCandidates(candidates, <<>>)],
                            1, store, key, t)
    ) : literal \in {FirstLiteral(candidates)}} : TRUE)
    ) : candidates \in {ParseCandidates(expandedInput, r.trimmed)}} : TRUE)

\* a truthy cached string: if (cached)
IsTruthyString(cached) ==
        IF cached = None THEN FALSE ELSE cached[1] # <<>>

\* resolveCoordinatesFromInput is called and runs to its first await
StartResolve(input) ==
    /\ rs.pc = "idle"
    /\ rs.runs < MaxResolves
    /\ \E trimmed \in {Trim(input)} :
       \E parsed \in {UrlOf[trimmed]} :
       \E expands \in {IF parsed = None THEN FALSE
                       ELSE ShouldExpandShortMapsUrl(parsed[1])} :
       \E cached \in {IF expands
                      THEN CacheGetValue(shortUrlCache,
                                         ShortUrlCacheKey(parsed[1], trimmed), now)
                      ELSE None} :
       LET r == [IdleResolve EXCEPT !.input = input, !.trimmed = trimmed,
                                    !.runs = rs.runs + 1, !.last = rs.last,
                                    !.lastExpansion = rs.lastExpansion,
                                    !.timers = rs.timers]
       IN  /\ shortUrlCache' = IF expands
                               THEN CacheGetStore(shortUrlCache,
                                                  ShortUrlCacheKey(parsed[1], trimmed), now)
                               ELSE shortUrlCache
           /\ IF expands /\ ~IsTruthyString(cached)
              THEN /\ rs' = [r EXCEPT !.pc = "fetching", !.started = now, !.fetches = 1,
                                      !.timers = {"expand"}]
                   /\ UNCHANGED geocodeCache
              ELSE \E next \in {AfterExpansion(r, IF expands THEN cached[1] ELSE trimmed,
                                               geocodeCache, apiKey, now)} :
                       /\ rs' = next.rs
                       /\ geocodeCache' = next.geocodeCache
    /\ UNCHANGED <<now, cacheVars, rateVars, envVars, matrixVars, parseVars, storeVars>>

\* the fetch of maybeExpandShortMapsUrl settles; the abort timer decides when
ExpandFetchSettles(outcome) ==
    /\ rs.pc = "fetching"
    /\ IF outcome.kind = "abort" THEN now >= rs.started + ExpandTimeoutMs
       ELSE now < rs.started + ExpandTimeoutMs
    /\ \E settled \in {ExpandSettled(outcome, rs.trimmed)} :
       LET r == [rs EXCEPT !.fetchOutcome = outcome,
                           !.timers = ClearTimeout(@, "expand", outcome.kind # "response"),
                           !.lastExpansion =
                               IF settled.cached
                               THEN Some([trimmed |-> rs.trimmed, value |-> settled.value,
                                          at |-> now, run |-> rs.runs])
                               ELSE @]
       IN  IF settled.threw
           THEN /\ rs' = [r EXCEPT !.pc = "failed", !.error = "fetch failed"]
                /\ UNCHANGED <<geocodeCache, shortUrlCache>>
           ELSE \E next \in {AfterExpansion(r, settled.value, geocodeCache, apiKey, now)} :
                /\ shortUrlCache' =
                       IF settled.cached
                       THEN CacheSetStore(shortUrlCache,
                                          ShortUrlCacheKey(UrlOf[rs.trimmed][1], rs.trimmed),
                                          settled.value, None, ShortUrlTtlMs, now)
                       ELSE shortUrlCache
                /\ rs' = next.rs
                /\ geocodeCache' = next.geocodeCache
    /\ UNCHANGED <<now, cacheVars, rateVars, envVars, matrixVars, parseVars, storeVars>>

\* the provider call of geocodeCandidate settles
GeocodeSettles(answer) ==
    /\ rs.pc = "geocoding"
    /\ IF answer.kind = "abort" THEN now >= rs.started + FetchJsonTimeoutMs
       ELSE now < rs.started + FetchJsonTimeoutMs
    /\ \E outcome \in {GeocodeOutcome(answer)} :
       LET candidate == rs.geocodeCandidates[rs.index]
           r == [rs EXCEPT !.trace = Append(@, [candidate |-> candidate,
                                                via |-> "provider",
                                                answer |-> answer]),
                           !.timers = ClearTimeout(@, "fetchJson", answer.kind # "payload")]
       IN  CASE outcome.kind = "throw" ->
                    /\ rs' = [r EXCEPT !.pc = "failed", !.error = "geocoding failed"]
                    /\ UNCHANGED geocodeCache
             [] outcome.kind = "null" ->
                    \E next \in {ProbeCandidate(r, rs.index + 1, geocodeCache,
                                                apiKey, now)} :
                        /\ rs' = next.rs
                        /\ geocodeCache' = next.geocodeCache
             [] outcome.kind = "coords" ->
                    /\ rs' = [r EXCEPT !.pc = "done", !.result = outcome.coords,
                                       !.last = Some([candidate |-> candidate,
                                                      coords |-> outcome.coords,
                                                      at |-> now, run |-> rs.runs])]
                    /\ geocodeCache' = CacheSetStore(geocodeCache, GeocodeCacheKey(candidate),
                                                     outcome.coords[1], None,
                                                     GeocodeTtlMs, now)
    /\ UNCHANGED <<now, cacheVars, rateVars, envVars, shortUrlCache, matrixVars, parseVars, storeVars>>

\* the caller has the result; the next request may call resolve again
ResolveReturns ==
    /\ rs.pc \in {"done", "failed"}
    /\ rs.runs < MaxResolves
    /\ rs' = [IdleResolve EXCEPT !.runs = rs.runs, !.last = rs.last,
                                 !.lastExpansion = rs.lastExpansion,
                                 !.timers = rs.timers]
    /\ UNCHANGED <<now, cacheVars, rateVars, envVars, geocodeCache, shortUrlCache,
                   matrixVars, parseVars, storeVars>>

\* Time passes while something can come of it: a pending fetch reaches its
\* abort timer, or between two requests cache entries age.
AdvanceSteps(pc) ==
    CASE pc = "fetching" -> {ExpandTimeoutMs}
      [] pc = "geocoding" -> {FetchJsonTimeoutMs}
      [] pc = "idle" -> {1, GeocodeTtlMs}
      [] OTHER -> {}

Advance(d) ==
    /\ advances < MaxAdvances
    /\ now' = now + d
    /\ advances' = advances + 1
    /\ UNCHANGED <<cacheVars, rateVars, apiKey, resolveVars, matrixVars, parseVars, storeVars>>

\* process.env.GOOGLE_MAPS_API_KEY is set or unset between two requests
KeyChanges ==
    /\ rs.pc = "idle"
    /\ apiKey' = ~apiKey
    /\ UNCHANGED <<now, advances, cacheVars, rateVars, resolveVars, matrixVars, parseVars,
                   storeVars>>

ResolveInit ==
    /\ geocodeCache = EmptyStore
    /\ shortUrlCache = EmptyStore
    /\ apiKey \in BOOLEAN
    /\ rs = IdleResolve
    /\ advances = 0

(***************************************************************************)
(* google-maps.ts getDistanceWithTraffic                                   *)
(***************************************************************************)
DistanceTtlMs == 60000

\* Number.prototype.toFixed(6): the sign and the millionths, ties away from
\* zero; "Infinity" for a non-finite number
ToFixed6(x) ==
    LET mag == IF x.n < 0 THEN -x.n ELSE x.n
    IN  [finite |-> x.finite,
         negative |-> x.n < 0,
         millionths |-> IF x.k <= 6 THEN mag * Pow10(6 - x.k)
                        ELSE (2 * mag + Pow10(x.k - 6)) \div (2 * Pow10(x.k - 6))]

\* buildCoordinateKey
BuildCoordinateKey(coords) ==
        <<ToFixed6(coords.lat), ToFixed6(coords.lng)>>

\* the cache key of getDistanceWithTraffic: origin "->" destination ":" mode
DistanceCacheKeyAnyMode(origin, destination, mode) ==
    <<BuildCoordinateKey(origin), BuildCoordinateKey(destination)>>
DistanceCacheKeyEitherWay(origin, destination, mode) ==
    <<{BuildCoordinateKey(origin), BuildCoordinateKey(destination)}, mode>>
DistanceCacheKey(origin, destination, mode) ==
    <<BuildCoordinateKey(origin), BuildCoordinateKey(destination), mode>>

\* What the Distance Matrix API answers: the transport fails, or a payload
\* arrives with a status and maybe rows[0].elements[0], whose distance.value,
\* duration.value and duration_in_traffic.value are numbers or missing.
Element(status, distance, duration, inTraffic) ==
    Some([status |-> status, distance |-> distance, duration |-> duration,
          duration_in_traffic |-> inTraffic])
DistancePayload(status, element) ==
    [kind |-> "payload", status |-> status, element |-> element]
DistanceFailure(kind) == [kind |-> kind, status |-> "", element |-> None]

DistanceAnswers ==
    {DistanceFailure("network error"), DistanceFailure("abort"),
     DistancePayload("REQUEST_DENIED", None),
     DistancePayload("OK", Element("ZERO_RESULTS", None, None, None)),
     DistancePayload("OK", Element("OK", None, Some(600), None)),
     DistancePayload("OK", Element("OK", Some(1234), Some(600), Some(930)))}

\* a / b rounded to the nearest integer, for a >= 0 and b > 0
RoundDiv(a, b) ==
        (2 * a + b) \div (2 * b)

RECURSIVE Pow2(_)
Pow2(e) == IF e = 0 THEN 1 ELSE 2 * Pow2(e - 1)

\* 2^p modulo b
RECURSIVE PowMod2(_, _)
PowMod2(p, b) == IF p = 0 THEN 1 % b ELSE (2 * PowMod2(p - 1, b)) % b

\* the binary exponent of a / b: the e with 2^e <= a / b < 2^(e + 1), for
\* 0 < a < 2^30 and 0 < b
QuotientExponent(a, b) ==
    IF a >= b
    THEN Greatest({e \in 0 .. 30 : Pow2(e) <= a \div b})
    ELSE 0 - Least({k \in 1 .. 30 : Pow2(k) >= (b + a - 1) \div a})

\* The quotient a / b of two integers is the double nearest to it, a
\* multiple of 2^(e - 52). Is that double the exact quotient or above it?
\* It is unless the remainder of a * 2^(52 - e) by b is under b / 2 (it is
\* never b / 2 for the divisors 1000 and 60).
DoubleNotBelow(a, b) ==
    \E r \in {((a % b) * PowMod2(52 - QuotientExponent(a, b), b)) % b} :
        r = 0 \/ 2 * r > b

\* (a / b).toFixed(1) in tenths, for integers a >= 0 and b > 0: the tenth
\* nearest to the double a / b, the larger one when the double is half way.
\* When the exact quotient is half way the double decides.
ToFixed1Truncated(a, b) == (10 * a) \div b
ToFixed1(a, b) ==
    IF a = 0 THEN 0
    ELSE IF (20 * a) % (2 * b) # b THEN RoundDiv(10 * a, b)
    ELSE (10 * a) \div b + (IF DoubleNotBelow(a, b) THEN 1 ELSE 0)

\* Number((distanceMeters / 1000).toFixed(1)), Number((durationSeconds / 60).toFixed(1))
DistancePointOf(distanceMeters, durationSeconds) ==
    [distance_km |-> Normal(ToFixed1(distanceMeters, 1000), 1),
     duration_minutes |-> Normal(ToFixed1(durationSeconds, 60), 1)]

Thrown(reason) == [kind |-> "throw", value |-> None, reason |-> reason]

\* element.duration_in_traffic?.value ?? element.duration?.value
DurationSecondsIfTruthy(element) ==
    IF element.duration_in_traffic # None /\ element.duration_in_traffic # Some(0)
    THEN element.duration_in_traffic
    ELSE element.duration
DurationSeconds(element) ==
    IF element.duration_in_traffic # None THEN element.duration_in_traffic
    ELSE element.duration

\* getDistanceWithTraffic after its await: what it does with the answer
DistanceOutcome(answer) ==
    IF answer.kind # "payload" THEN Thrown(answer.kind)
    ELSE IF answer.status # "OK" THEN Thrown("Distance Matrix failed with status")
    ELSE IF answer.element = None
         THEN Thrown("Distance Matrix returned an empty response.")
    ELSE IF answer.element[1].status # "OK"
         THEN Thrown("Distance Matrix element failed with status")
    ELSE LET element == answer.element[1]
             distanceMeters == element.distance
             durationSeconds == DurationSeconds(element)
         IN  IF distanceMeters = None \/ durationSeconds = None
             THEN Thrown("Distance Matrix response is missing distance or duration values.")
             ELSE [kind |-> "value",
                   value |-> Some(DistancePointOf(distanceMeters[1], durationSeconds[1])),
                   reason |-> ""]

\* the promise of one getDistanceWithTraffic call
PendingLeg(t) ==
    [state |-> "pending", value |-> None, reason |-> "", started |-> t,
     timers |-> {"fetchJson"}]
FulfilledLeg(point, t) ==
    [state |-> "fulfilled", value |-> Some(point), reason |-> "", started |-> t,
     timers |-> {}]
RejectedLeg(reason, t) ==
    [state |-> "rejected", value |-> None, reason |-> reason, started |-> t,
     timers |-> {}]

\* getDistanceWithTraffic up to its await: the cache, the API key, the request
StartDistance(origin, destination, mode, store, key, t) ==
    LET cacheKey == DistanceCacheKey(origin, destination, mode)
        cached == CacheGetValue(store, cacheKey, t)
    IN  [store |-> CacheGetStore(store, cacheKey, t),
         leg |-> IF cached # None THEN FulfilledLeg(cached[1], t)
                 ELSE IF ~key THEN RejectedLeg("GOOGLE_MAPS_API_KEY is not configured.", t)
                 ELSE PendingLeg(t)]

(***************************************************************************)
(* POST /api/travel: the travel matrix                                     *)
(***************************************************************************)
MaxLandmarks == 2       \* landmarks in the store

\* two of the three values of TravelMode
TravelModes == {"driving", "walking"}

\* the landmarks readLandmarks returns: the first n of these
Landmark(i) ==
    [id |-> <<"id", i>>, name |-> <<"landmark", i>>,
     lat |-> Num(50 + i, 0), lng |-> Num(i, 0)]
LandmarkCoordinates(landmark) ==
        [lat |-> landmark.lat, lng |-> landmark.lng]

\* the resolved targets of the model: a place of its own, and the place of
\* the first landmark
MatrixTargets == {[lat |-> Num(515, 1), lng |-> Num(-1, 1)], LandmarkCoordinates(Landmark(1))}

\* Promise.all: rejected as soon as one promise is, fulfilled when all are
PromiseAll(states) ==
    IF \E i \in DOMAIN states : states[i] = "rejected" THEN "rejected"
    ELSE IF \A i \in DOMAIN states : states[i] = "fulfilled" THEN "fulfilled"
    ELSE "pending"

\* Promise.allSettled: fulfilled when no promise is pending; never rejected
PromiseAllSettledAsAll(states) == PromiseAll(states)
PromiseAllSettled(states) ==
    IF \E i \in DOMAIN states : states[i] = "pending" THEN "pending" ELSE "fulfilled"

\* getErrorMessage(reason): the message of the error a leg was rejected with
GetErrorMessage(reason) == reason

\* errors.length > 0 ? errors.join(" | ") : undefined
RECURSIVE JoinErrorsReversed(_)
JoinErrorsReversed(errors) ==
    IF errors = <<>> THEN None
    ELSE IF Len(errors) = 1 THEN Some(errors[1])
    ELSE Some(JoinErrorsReversed(Tail(errors))[1] \o " | " \o errors[1])
RECURSIVE JoinErrors(_)
JoinErrors(errors) ==
    IF errors = <<>> THEN None
    ELSE IF Len(errors) = 1 THEN Some(errors[1])
    ELSE Some(errors[1] \o " | " \o JoinErrors(Tail(errors))[1])

\* The landmark mapper after its await: the row of the two settled legs.
RowOfBothOrNothing(landmark, toLandmarkResult, toTargetResult) ==
    LET both == toLandmarkResult.state = "fulfilled" /\ toTargetResult.state = "fulfilled"
    IN  [landmark |-> landmark.name, landmarkId |-> landmark.id,
         to_landmark |-> IF both THEN toLandmarkResult.value ELSE None,
         to_target |-> IF both THEN toTargetResult.value ELSE None,
         error |-> IF both THEN None ELSE Some("failed")]
RowOf(landmark, toLandmarkResult, toTargetResult) ==
    [landmark |-> landmark.name, landmarkId |-> landmark.id,
     to_landmark |-> IF toLandmarkResult.state = "fulfilled"
                     THEN toLandmarkResult.value ELSE None,
     to_target |-> IF toTargetResult.state = "fulfilled"
                   THEN toTargetResult.value ELSE None,
     error |-> JoinErrors(
                   (IF toLandmarkResult.state = "fulfilled" THEN <<>>
                    ELSE <<"target -> landmark failed: "
                           \o GetErrorMessage(toLandmarkResult.reason)>>)
                   \o (IF toTargetResult.state = "fulfilled" THEN <<>>
                       ELSE <<"landmark -> target failed: "
                              \o GetErrorMessage(toTargetResult.reason)>>))]

\* the promise the landmark mapper returns
RowPromise(landmark, pair) ==
    LET settled == PromiseAllSettled(<<pair.toLandmark.state, pair.toTarget.state>>)
    IN  [state |-> settled,
         row |-> IF settled = "fulfilled"
                 THEN Some(RowOf(landmark, pair.toLandmark, pair.toTarget))
                 ELSE None]

IdleMatrix ==
    [pc |-> "idle", target |-> None, mode |-> "", landmarks |-> <<>>, legs |-> <<>>,
     rows |-> <<>>, response |-> None, settled |-> <<>>]

\* The continuations of POST that run once promises have settled: the rows
\* whose legs have both settled, and, when Promise.all settles, the response
\* (the catch block answers 500 if it rejects).
\* history: the landmark of the call that completed first
FirstSettled(settled, i) ==
    IF settled = <<>> THEN <<i>> ELSE settled

RespondInCompletionOrder(m) ==
    IF m.response # None THEN m
    ELSE LET rows == [i \in 1..Len(m.legs) |-> RowPromise(m.landmarks[i], m.legs[i])]
             all == PromiseAll([i \in 1..Len(rows) |-> rows[i].state])
             first == IF m.settled = <<>> THEN 1 ELSE m.settled[1]
             order == [i \in 1..Len(rows) |->
                          IF i = 1 THEN first
                          ELSE IF i <= first THEN i - 1 ELSE i]
         IN  [m EXCEPT
                 !.rows = rows,
                 !.pc = IF all = "pending" THEN "running" ELSE "responded",
                 !.response =
                     CASE all = "fulfilled" ->
                              Some([status |-> 200, target |-> m.target, mode |-> m.mode,
                                    results |-> [i \in 1..Len(rows) |->
                                                    rows[order[i]].row[1]]])
                       [] all = "rejected" ->
                              Some([status |-> 500, target |-> None, mode |-> "",
                                    results |-> <<>>])
                       [] OTHER -> None]
Respond(m) ==
    IF m.response # None THEN m
    ELSE LET rows == [i \in 1..Len(m.legs) |-> RowPromise(m.landmarks[i], m.legs[i])]
             all == PromiseAll([i \in 1..Len(rows) |-> rows[i].state])
         IN  [m EXCEPT
                 !.rows = rows,
                 !.pc = IF all = "pending" THEN "running" ELSE "responded",
                 !.response =
                     CASE all = "fulfilled" ->
                              Some([status |-> 200, target |-> m.target, mode |-> m.mode,
                                    results |-> [i \in 1..Len(rows) |-> rows[i].row[1]]])
                       [] all = "rejected" ->
                              Some([status |-> 500, target |-> None, mode |-> "",
                                    results |-> <<>>])
                       [] OTHER -> None]

\* landmarks.map(...): both calls of every landmark start, in order
RECURSIVE StartLegs(_, _, _, _, _, _, _)
StartLegs(landmarks, target, mode, store, key, t, legs) ==
    IF landmarks = <<>> THEN [store |-> store, legs |-> legs]
    ELSE LET place == LandmarkCoordinates(landmarks[1])
             first == StartDistance(target, place, mode, store, key, t)
             second == StartDistance(place, target, mode, first.store, key, t)
         IN  StartLegs(Tail(landmarks), target, mode, second.store, key, t,
                       Append(legs, [toLandmark |-> first.leg, toTarget |-> second.leg]))

\* POST from the landmarks read to its next await, for a resolved target
ComputeMatrix(target, n, mode) ==
    /\ mx.pc = "idle"
    /\ LET landmarks == [i \in 1..n |-> Landmark(i)]
           started == StartLegs(landmarks, target, mode, distanceCache, apiKey, now, <<>>)
           m == [IdleMatrix EXCEPT !.target = Some(target), !.mode = mode,
                                   !.landmarks = landmarks]
       IN  IF n = 0
           THEN /\ mx' = [m EXCEPT !.pc = "responded",
                                   !.response = Some([status |-> 400, target |-> None,
                                                      mode |-> "", results |-> <<>>])]
                /\ UNCHANGED distanceCache
           ELSE /\ mx' = Respond([m EXCEPT !.pc = "running", !.legs = started.legs])
                /\ distanceCache' = started.store
    /\ UNCHANGED <<dc, now, cacheVars, rateVars, envVars, resolveVars, parseVars, storeVars>>

\* the provider call of one leg settles, and the continuations it enables run
DistanceSettles(i, direction, answer) ==
    /\ mx.pc \in {"running", "responded"}
    /\ i \in 1..Len(mx.legs)
    /\ mx.legs[i][direction].state = "pending"
    /\ IF answer.kind = "abort" THEN now >= mx.legs[i][direction].started + FetchJsonTimeoutMs
       ELSE now < mx.legs[i][direction].started + FetchJsonTimeoutMs
    /\ LET place == LandmarkCoordinates(mx.landmarks[i])
           cacheKey == IF direction = "toLandmark"
                       THEN DistanceCacheKey(mx.target[1], place, mx.mode)
                       ELSE DistanceCacheKey(place, mx.target[1], mx.mode)
           outcome == DistanceOutcome(answer)
           started == mx.legs[i][direction].started
           timers == ClearTimeout(mx.legs[i][direction].timers, "fetchJson",
                                  answer.kind # "payload")
       IN  IF outcome.kind = "value"
           THEN /\ distanceCache' = CacheSetStore(distanceCache, cacheKey, outcome.value[1],
                                                  None, DistanceTtlMs, now)
                /\ mx' = Respond([mx EXCEPT !.legs[i][direction] =
                                                [FulfilledLeg(outcome.value[1], started)
                                                    EXCEPT !.timers = timers],
                                            !.settled = FirstSettled(@, i)])
           ELSE /\ mx' = Respond([mx EXCEPT !.legs[i][direction] =
                                                [RejectedLeg(outcome.reason, started)
                                                    EXCEPT !.timers = timers],
                                            !.settled = FirstSettled(@, i)])
                /\ UNCHANGED distanceCache
    /\ UNCHANGED <<dc, now, cacheVars, rateVars, envVars, resolveVars, parseVars, storeVars>>

\* time passes while a provider call is pending, until its abort timer is due
MatrixAdvanceSteps(m, t) ==
    IF \E i \in 1..Len(m.legs), direction \in {"toLandmark", "toTarget"} :
           /\ m.legs[i][direction].state = "pending"
           /\ t < m.legs[i][direction].started + FetchJsonTimeoutMs
    THEN {FetchJsonTimeoutMs}
    ELSE {}

(***************************************************************************)
(* getDistanceWithTraffic, call after call                                 *)
(***************************************************************************)
MaxDistanceCalls == 3   \* getDistanceWithTraffic calls in one behaviour

\* a place, a place that differs from it after the 6th fractional digit and
\* rounds to the same 6 digits, one that rounds to other digits, and a
\* place elsewhere
PlaceA == [lat |-> Num(515, 1), lng |-> Num(-1, 1)]
PlaceANear == [lat |-> Num(515000001, 7), lng |-> Num(-1, 1)]
PlaceAFar == [lat |-> Num(515000006, 7), lng |-> Num(-1, 1)]
PlaceB == [lat |-> Num(51, 0), lng |-> Num(1, 0)]

\* the calls made: there and back, from nearby, in either mode
DistanceCalls ==
    {[origin |-> pair[1], destination |-> pair[2], mode |-> mode] :
        pair \in {<<PlaceA, PlaceB>>, <<PlaceB, PlaceA>>, <<PlaceANear, PlaceB>>,
                  <<PlaceAFar, PlaceB>>},
        mode \in TravelModes}

\* what the provider answers to them: a failure, or one of two measurements
DistanceCallAnswers ==
    {DistanceFailure("network error"), DistanceFailure("abort"),
     DistancePayload("OK", Element("OK", Some(1234), Some(600), Some(930))),
     DistancePayload("OK", Element("OK", Some(2500), Some(300), None))}

IdleDistanceCall ==
    [pc |-> "idle", origin |-> PlaceA, destination |-> PlaceA, mode |-> "",
     started |-> 0, via |-> "", result |-> None, calls |-> 0, stored |-> {}]

\* getDistanceWithTraffic up to its await
CallDistance(origin, destination, mode) ==
    /\ dc.pc = "idle"
    /\ dc.calls < MaxDistanceCalls
    /\ \E started \in {StartDistance(origin, destination, mode, distanceCache, apiKey, now)} :
           /\ distanceCache' = started.store
           /\ dc' = [dc EXCEPT
                        !.pc = IF started.leg.state = "pending" THEN "pending" ELSE "returned",
                        !.origin = origin, !.destination = destination, !.mode = mode,
                        !.started = now,
                        !.via = CASE started.leg.state = "fulfilled" -> "cache"
                                  [] started.leg.state = "rejected" -> "thrown"
                                  [] OTHER -> "",
                        !.result = started.leg.value,
                        !.calls = dc.calls + 1]
    /\ UNCHANGED <<mx, now, cacheVars, rateVars, envVars, resolveVars, parseVars, storeVars>>

\* getDistanceWithTraffic from the provider's answer to its return
DistanceCallSettles(answer) ==
    /\ dc.pc = "pending"
    /\ IF answer.kind = "abort" THEN now >= dc.started + FetchJsonTimeoutMs
       ELSE now < dc.started + FetchJsonTimeoutMs
    /\ \E outcome \in {DistanceOutcome(answer)} :
           IF outcome.kind = "value"
           THEN /\ distanceCache' =
                       CacheSetStore(distanceCache,
                                     DistanceCacheKey(dc.origin, dc.destination, dc.mode),
                                     outcome.value[1], None, DistanceTtlMs, now)
                /\ dc' = [dc EXCEPT !.pc = "returned", !.via = "provider",
                                    !.result = outcome.value,
                                    !.stored = dc.stored \cup
                                        {[origin |-> dc.origin, destination |-> dc.destination,
                                          mode |-> dc.mode, point |-> outcome.value[1],
                                          at |-> now]}]
           ELSE /\ dc' = [dc EXCEPT !.pc = "returned", !.via = "thrown"]
                /\ UNCHANGED distanceCache
    /\ UNCHANGED <<mx, now, cacheVars, rateVars, envVars, resolveVars, parseVars, storeVars>>

\* the caller has the result or the error; the next call can start
DistanceCallReturns ==
    /\ dc.pc = "returned"
    /\ dc' = [dc EXCEPT !.pc = "idle"]
    /\ UNCHANGED <<distanceCache, mx, now, cacheVars, rateVars, envVars, resolveVars,
                   parseVars, storeVars>>

\* time passes between two calls, or until the abort timer of a pending one
DistanceAdvanceSteps(c) ==
    CASE c.pc = "pending" -> {FetchJsonTimeoutMs}
      [] c.pc = "idle" -> {1, DistanceTtlMs}
      [] OTHER -> {}

MatrixInit ==
    /\ distanceCache = EmptyStore
    /\ mx = IdleMatrix
    /\ dc = IdleDistanceCall

(***************************************************************************)
(* Calls of the pure functions of coordinates.ts on their own              *)
(***************************************************************************)
\* texts that are not URLs: with and without a lat,lng pair, in and out of range
ParseTexts ==
    {<<"4", "0", ".", "7", ",", "-", "7", "4">>,
     <<"S", "o", "h", "o">>,
     <<"1", ",", " ", "2">>,
     <<"B", "i", "g", " ", "B", "e", "n", " ", "5", "1", ".", "5", ",", "-", "0", ".",
        "1">>,
     <<"2", "0", "0", ",", "3", "0", "0">>,
     <<"a", " ", "b">>,
     <<"a", " ", " ", "+", "b">>,
     <<"m", ".", "c", "o", "/", "p", "l", "a", "c", "e", "/", "K", "e", "w">>,
     <<>>}
ParsePads == {<<>>, <<" ">>, <<"\n", " ">>}

\* URLs, put together from an origin, a path and a query
ParseOrigins ==
    {<<"h", "t", "t", "p", "s", ":", "/", "/", "m", ".", "c", "o">>,
     <<"h", "t", "t", "p", ":", "/", "/", "m", "a", "p", "s", ".", "g", "o", "o", "g",
        "l", "e", ".", "c", "o", "m">>}
ParsePaths ==
    {<<"/", "p", "l", "a", "c", "e", "/", "B", "i", "g", "+", "B", "e", "n">>,
     <<"/", "p", "l", "a", "c", "e", "/", "1", ",", "2">>,
     <<"/", "m", "a", "p", "s", "/", "@", "1", ",", "2">>,
     <<"/", "s", "e", "a", "r", "c", "h", "/", "S", "o", "h", "o">>,
     <<"/", "m", "a", "p", "s", "/", "d", "i", "r", "/", "S", "o", "h", "o", "/", "K",
        "e", "w">>,
     <<"/", "a", "_", "b", "-", "c">>}
ParseQueries ==
    {<<"?", "q", "=", "S", "o", "h", "o">>,
     <<"?", "q", "=", "1", ",", "2">>,
     <<"?", "q", "=", "S", "o", "h", "o", "&", "q", "u", "e", "r", "y", "=", "S", "o",
        "h", "o">>,
     <<"?", "q", "=", "l", "o", "c", ":", "1", ",", "2", "&", "d", "a", "d", "d", "r",
        "=", "K", "e", "w">>,
     <<"?", "q", "u", "e", "r", "y", "=", "+", "S", "o", "h", "o", "+", "&", "s", "a",
        "d", "d", "r", "=", "s", "o", "h", "o">>,
     <<"?", "q", "=", "%", "3", "1", "%", "2", "C", "2">>}

\* URLs put together from a path and a query. A part is its text, the text
\* once "+" has become a space, and the cleaned candidates it gives rise to,
\* in the order the claim lists their sources.
CandidateOrigin == <<"h", "t", "t", "p", "s", ":", "/", "/", "m", ".", "c", "o">>
CandidatePaths ==
    {
     [text |-> <<>>, clean |-> <<>>, candidates |-> <<>>],
     [text |-> <<"/", "p", "l", "a", "c", "e", "/", "B", "i", "g", "+", "B", "e",
      "n">>, clean |-> <<"/", "p", "l", "a", "c", "e", "/", "B", "i", "g", " ", "B",
      "e", "n">>, candidates |-> <<<<"B", "i", "g", " ", "B", "e", "n">>, <<"p",
      "l", "a", "c", "e", " ", "B", "i", "g", " ", "B", "e", "n">>>>],
     [text |-> <<"/", "s", "e", "a", "r", "c", "h", "/", "S", "o", "h", "o", "/",
      "p", "l", "a", "c", "e", "/", "K", "e", "w", "/", "@", "z">>, clean
      |-> <<"/", "s", "e", "a", "r", "c", "h", "/", "S", "o", "h", "o", "/", "p",
      "l", "a", "c", "e", "/", "K", "e", "w", "/", "@", "z">>, candidates
      |-> <<<<"K", "e", "w">>, <<"S", "o", "h", "o">>, <<"s", "e", "a", "r", "c",
      "h", " ", "S", "o", "h", "o", " ", "p", "l", "a", "c", "e", " ", "K", "e",
      "w">>>>],
     [text |-> <<"/", "S", "o", "h", "o">>, clean |-> <<"/", "S", "o", "h", "o">>,
      candidates |-> <<<<"S", "o", "h", "o">>>>],
     [text |-> <<"/", "m", "a", "p", "s", "/", "_", "-", "/">>, clean |-> <<"/",
      "m", "a", "p", "s", "/", "_", "-", "/">>, candidates |-> <<<<"m", "a", "p",
      "s">>>>],
     [text |-> <<"/", "a", "%", "2", "0", "%", "2", "0", "b", "_", "c">>, clean |->
      <<"/", "a", "%", "2", "0", "%", "2", "0", "b", "_", "c">>, candidates |->
      <<<<"a", " ", "b", " ", "c">>>>]}
CandidateQueries ==
    {
     [text |-> <<>>, clean |-> <<>>, candidates |-> <<>>],
     [text |-> <<"?", "q", "=", "+", "&", "l", "l", "=", "K", "e", "w">>, clean |->
      <<"?", "q", "=", " ", "&", "l", "l", "=", "K", "e", "w">>, candidates |->
      <<>>],
     [text |-> <<"?", "s", "a", "d", "d", "r", "=", "S", "o", "h", "o", "&", "q",
      "=", "S", "o", "h", "o">>, clean |-> <<"?", "s", "a", "d", "d", "r", "=", "S",
      "o", "h", "o", "&", "q", "=", "S", "o", "h", "o">>, candidates |-> <<<<"S",
      "o", "h", "o">>>>],
     [text |-> <<"?", "q", "=", "l", "o", "c", ":", "K", "e", "w", "&", "q", "u",
      "e", "r", "y", "=", "B", "i", "g", "+", "B", "e", "n">>, clean |-> <<"?", "q",
      "=", "l", "o", "c", ":", "K", "e", "w", "&", "q", "u", "e", "r", "y", "=",
      "B", "i", "g", " ", "B", "e", "n">>, candidates |-> <<<<"K", "e", "w">>,
      <<"B", "i", "g", " ", "B", "e", "n">>>>],
     [text |-> <<"?", "d", "a", "d", "d", "r", "=", "S", "o", "h", "o", "&", "o",
      "r", "i", "g", "i", "n", "=">>, clean |-> <<"?", "d", "a", "d", "d", "r", "=",
      "S", "o", "h", "o", "&", "o", "r", "i", "g", "i", "n", "=">>, candidates |->
      <<<<"S", "o", "h", "o">>>>]}

\* the queries "?{first}=v{i}&{second}=v{j}" for every two of the parameters
CandidateNames ==
    <<<<"q">>, <<"q", "u", "e", "r", "y">>,
      <<"d", "e", "s", "t", "i", "n", "a", "t", "i", "o", "n">>,
      <<"o", "r", "i", "g", "i", "n">>, <<"d", "a", "d", "d", "r">>,
      <<"s", "a", "d", "d", "r">>>>
TwoParamQuery(i, j) ==
    [text |-> <<"?">> \o CandidateNames[i] \o <<"=", "v">> \o <<Digits[i + 1]>> \o <<"&">>
              \o CandidateNames[j] \o <<"=", "v">> \o <<Digits[j + 1]>>,
     clean |-> <<"?">> \o CandidateNames[i] \o <<"=", "v">> \o <<Digits[i + 1]>> \o <<"&">>
               \o CandidateNames[j] \o <<"=", "v">> \o <<Digits[j + 1]>>,
     candidates |-> IF i = j THEN <<<<"v">> \o <<Digits[i + 1]>>>>
                    ELSE <<<<"v">> \o <<Digits[Least({i, j}) + 1]>>,
                           <<"v">> \o <<Digits[Greatest({i, j}) + 1]>>>>]
TwoParamQueries == {TwoParamQuery(i, j) : i, j \in 1..Len(CandidateNames)}

CandidateInput(path, query) == CandidateOrigin \o path.text \o query.text
CandidateInputs ==
    {CandidateInput(path, query) :
        path \in CandidatePaths, query \in CandidateQueries \cup TwoParamQueries}

ParseInputs ==
    {before \o text \o after : before \in ParsePads, text \in ParseTexts, after \in ParsePads}
    \cup {origin \o path \o query : origin \in ParseOrigins,
                                     path \in ParsePaths \cup {<<>>},
                                     query \in ParseQueries \cup {<<>>}}
    \cup CandidateInputs

\* extractGeocodeCandidates tabulated over these inputs
CandidatesOfInput == [input \in ParseInputs |-> ExtractGeocodeCandidates(input)]

NoCall == [op |-> "none", input |-> <<>>, result |-> <<>>]

\* extractGeocodeCandidates(input) is called and returns
CallExtractGeocodeCandidates(input) ==
    /\ pe' = [op |-> "extractGeocodeCandidates", input |-> input,
              result |-> CandidatesOfInput[input]]
    /\ UNCHANGED <<now, cacheVars, rateVars, envVars, resolveVars, matrixVars, storeVars>>

\* the decimal digits of a natural number
RECURSIVE NatDigits(_)
NatDigits(n) ==
    IF n < 10 THEN <<Digits[n + 1]>>
    ELSE NatDigits(n \div 10) \o <<Digits[(n % 10) + 1]>>

\* the k digits of the fraction f / 10^k
RECURSIVE FractionDigits(_, _)
FractionDigits(f, k) ==
    IF k = 0 THEN <<>>
    ELSE FractionDigits(f \div 10, k - 1) \o <<Digits[(f % 10) + 1]>>

\* a number n / 10^k written with d >= k fraction digits
DecimalString(x, d) ==
    LET mag == (IF x.n < 0 THEN 0 - x.n ELSE x.n) * Pow10(d - x.k)
    IN  (IF x.n < 0 THEN <<"-">> ELSE <<>>)
        \o NatDigits(mag \div Pow10(d))
        \o (IF d = 0 THEN <<>> ELSE <<".">> \o FractionDigits(mag % Pow10(d), d))

\* `${x}`: the shortest decimal notation (Number.prototype.toString for
\* 1e-6 <= |x| < 1e21, and for 0)
ToDecimalString(x) == DecimalString(x, x.k)

\* x.toFixed(6) for a number of at most 6 fraction digits
ToFixed6String(x) == DecimalString(x, 6)

Pair(lat, lng) == Some([lat |-> lat, lng |-> lng])

\* valid latitudes and longitudes, the ends of the ranges among them
RoundTripLats ==
    {Num(-90, 0), Num(-455, 1), Num(-1, 3), Num(0, 0), Num(5, 1), Num(7, 0),
     Num(407128, 4), Num(90, 0)}
RoundTripLngs ==
    {Num(-180, 0), Num(-74006, 3), Num(-1, 1), Num(0, 0), Num(2, 0), Num(10025, 2),
     Num(180, 0)}
RoundTripFormats == {"toString", "toFixed(6)"}
FormatNumber(x, format) ==
    IF format = "toString" THEN ToDecimalString(x) ELSE ToFixed6String(x)

\* what stands before and after "@lat,lng" in a reference
RoundTripContexts ==
    {[before |-> <<>>, after |-> <<>>],
     [before |-> <<"h", "t", "t", "p", "s", ":", "/", "/", "m", ".", "c", "o", "/",
                   "m", "a", "p", "s", "/">>,
      after |-> <<",", "1", "5", "z">>],
     [before |-> <<"h", "t", "t", "p", "s", ":", "/", "/", "m", ".", "c", "o", "/",
                   "m", "a", "p", "s", "/", "p", "l", "a", "c", "e", "/", "K", "e", "w",
                   "/">>,
      after |-> <<"/", "d", "a", "t", "a", "=", "!", "3", "d", "1", "!", "4", "d",
                  "2">>],
     [before |-> <<" ", "K", "e", "w", " ">>, after |-> <<" ">>],
     [before |-> <<"h", "t", "t", "p", "s", ":", "/", "/", "m", ".", "c", "o", "/",
                   "?", "q", "=", "3", ",", "4", "#">>,
      after |-> <<>>]}

\* a reference holding "@{lat},{lng}"
RoundTripInput(lat, lng, format, context) ==
    context.before \o <<"@">> \o FormatNumber(lat, format) \o <<",">>
    \o FormatNumber(lng, format) \o context.after

RoundTripInputs ==
    {RoundTripInput(lat, lng, format, context) :
        lat \in RoundTripLats, lng \in RoundTripLngs,
        format \in RoundTripFormats, context \in RoundTripContexts}

\* References put together from sources of coordinates. A part is a text and
\* the valid pair that its pattern or source finds in it, if any: the parts
\* without one hold no pair or a pair out of range.
Part(text, pair) == [text |-> text, pair |-> pair]
ReferencePrefixes ==
    {[text |-> <<"h", "t", "t", "p", "s", ":", "/", "/", "m", ".", "c", "o">>, url |-> TRUE],
     [text |-> <<"s", "e", "e", " ">>, url |-> FALSE]}
PathParts ==
    {Part(<<"/", "m", "a", "p", "s">>, None),
     Part(<<"/", "1", ".", "5", ",", "-", "2", ".", "5">>, Pair(Num(15, 1), Num(-25, 1))),
     Part(<<"/", "2", "0", "0", ",", "3">>, None)}
AtParts ==
    {Part(<<>>, None),
     Part(<<"/", "@", "1", "2", "0", ",", "5">>, None),
     Part(<<"/", "@", "5", ",", "2", "0", "0">>, None),
     Part(<<"/", "@", "1", "0", ",", "2", "0">>, Pair(Num(10, 0), Num(20, 0)))}
EmbedParts ==
    {Part(<<>>, None),
     Part(<<"!", "3", "d", "9", "5", "!", "4", "d", "4">>, None),
     Part(<<"!", "3", "d", "-", "3", "0", ".", "5", "!", "4", "d", "4", "0">>,
          Pair(Num(-305, 1), Num(40, 0)))}
QueryParts ==
    {Part(<<>>, None),
     Part(<<"?", "q", "=", "9", "1", ",", "0", "&", "l", "l", "=", "6", ",", "7">>,
          Pair(Num(6, 0), Num(7, 0))),
     Part(<<"?", "q", "=", "S", "o", "h", "o", "&", "q", "u", "e", "r", "y", "=", "8",
            ",", "-", "9", ".", "5">>,
          Pair(Num(8, 0), Num(-95, 1))),
     Part(<<"?", "q", "=", "3", "0", "0", ",", "1", "&", "l", "l", "=", "2", ",", "1",
            "8", "1">>,
          None),
     Part(<<"?", "s", "a", "d", "d", "r", "=", "-", "9", "1", ",", "0", "&", "d", "a",
            "d", "d", "r", "=", "1", "1", ",", "1", "2">>,
          Pair(Num(11, 0), Num(12, 0)))}

ReferenceInput(prefix, path, at, embed, query) ==
    prefix.text \o path.text \o at.text \o embed.text \o query.text

ReferenceInputs ==
    {ReferenceInput(prefix, path, at, embed, query) :
        prefix \in ReferencePrefixes, path \in PathParts, at \in AtParts,
        embed \in EmbedParts, query \in QueryParts}

\* URLs with two of the query parameters, each holding a valid pair of its
\* own: "?{first}={i},{i + 10}&{second}={j},{j + 10}"
ParamNames ==
    <<<<"q">>, <<"q", "u", "e", "r", "y">>, <<"l", "l">>, <<"s", "l", "l">>,
      <<"d", "e", "s", "t", "i", "n", "a", "t", "i", "o", "n">>,
      <<"o", "r", "i", "g", "i", "n">>, <<"d", "a", "d", "d", "r">>,
      <<"s", "a", "d", "d", "r">>>>
ParamOrderInput(i, j) ==
    <<"h", "t", "t", "p", "s", ":", "/", "/", "m", ".", "c", "o", "/", "?">>
    \o ParamNames[i] \o <<"=">> \o NatDigits(i) \o <<",">> \o NatDigits(i + 10)
    \o <<"&">>
    \o ParamNames[j] \o <<"=">> \o NatDigits(j) \o <<",">> \o NatDigits(j + 10)
ParamOrderInputs ==
    {ParamOrderInput(i, j) : i, j \in 1..Len(ParamNames)}

\* a pair as plain text, and in a path where its comma is percent-encoded
PlainPairTexts ==
    {<<"1", ".", "5", ",", "-", "2", ".", "5">>, <<" ", "1", "0", ",", " ", "2", "0", " ">>}
EncodedPathInput ==
    <<"h", "t", "t", "p", "s", ":", "/", "/", "m", ".", "c", "o", "/", "1", ".", "5",
      "%", "2", "C", "-", "2", ".", "5">>

CoordinateInputs ==
    RoundTripInputs \cup ReferenceInputs \cup ParamOrderInputs \cup PlainPairTexts
        \cup {EncodedPathInput}

\* extractCoordinatesFromGoogleMapsUrl tabulated over these inputs
CoordinatesOfInput ==
    [input \in CoordinateInputs |-> ExtractCoordinatesFromGoogleMapsUrl(input)]

\* extractCoordinatesFromGoogleMapsUrl(input) is called and returns
CallExtractCoordinates(input) ==
    /\ pe' = [op |-> "extractCoordinatesFromGoogleMapsUrl", input |-> input,
              result |-> CoordinatesOfInput[input]]
    /\ UNCHANGED <<now, cacheVars, rateVars, envVars, resolveVars, matrixVars, storeVars>>

\* getDistanceWithTraffic from the provider's answer on: the conversion of
\* the answer's distance and duration, called for a range of values
MaxMeters == 300        \* the largest distance of the range, in metres
MaxSeconds == 60        \* the largest duration of the range, in seconds
ConversionInputs ==
    {<<m, 725>> : m \in 0 .. MaxMeters \cup {12345, 12360}}
    \cup {<<12345, s>> : s \in 0 .. MaxSeconds}

\* the answer holding these values; the duration is the traffic-aware one
\* when there is one
ConversionAnswer(distanceMeters, durationSeconds, inTraffic) ==
    DistancePayload("OK", Element("OK", Some(distanceMeters),
                                  IF inTraffic THEN Some(0) ELSE Some(durationSeconds),
                                  IF inTraffic THEN Some(durationSeconds) ELSE None))

CallDistanceOutcome(distanceMeters, durationSeconds, inTraffic) ==
    /\ pe' = [op |-> "getDistanceWithTraffic",
              input |-> <<distanceMeters, durationSeconds, inTraffic>>,
              result |-> DistanceOutcome(ConversionAnswer(distanceMeters, durationSeconds,
                                                          inTraffic)).value]
    /\ UNCHANGED <<now, cacheVars, rateVars, envVars, resolveVars, matrixVars, storeVars>>

\* the durations an element may carry, in seconds, or none
DurationChoices == {None} \cup {Some(s) : s \in {0, 300, 600, 930}}

\* getDistanceWithTraffic from the provider's answer on, for an element with
\* or without duration and duration_in_traffic
CallDurationChoice(duration, inTraffic) ==
    /\ pe' = [op |-> "getDistanceWithTraffic: duration",
              input |-> <<duration, inTraffic>>,
              result |-> DistanceOutcome(
                             DistancePayload("OK", Element("OK", Some(1234), duration,
                                                           inTraffic)))]
    /\ UNCHANGED <<now, cacheVars, rateVars, envVars, resolveVars, matrixVars, storeVars>>

ParseInit == pe = NoCall

(***************************************************************************)
(* landmarks-store: readLandmarks, writeLandmarks and the three mutations  *)
(***************************************************************************)
Callers == {"p", "q"}
LandmarkNames == {"Kew", "Soho"}
StoredIds == {"l0", "l9"}

\* randomUUID(): an id no other call and no stored landmark has
NewId(o) == "uuid-" \o o

MutationCalls ==
    [kind : {"add"}, id : {""}, name : LandmarkNames]
        \cup [kind : {"update"}, id : StoredIds, name : LandmarkNames]
        \cup [kind : {"delete"}, id : StoredIds, name : {""}]

IdleMutation == [pc |-> "idle", call |-> [kind |-> "", id |-> "", name |-> ""],
                 result |-> ""]

\* allLandmarks.findIndex((item) => item.id === id), 0 for -1
FindIndex(all, id) ==
    IF \E i \in 1..Len(all) : all[i].id = id
    THEN Least({i \in 1..Len(all) : all[i].id = id})
    ELSE 0

\* what a mutation hands to writeLandmarks once readLandmarks has returned
\* allLandmarks; None when it returns without writing (null, false)
MutatedLandmarks(o, call, all) ==
    CASE call.kind = "add" ->
            Some(Append(all, [id |-> NewId(o), name |-> call.name]))
      [] call.kind = "update" ->
            IF FindIndex(all, call.id) = 0
            THEN None
            ELSE Some([all EXCEPT ![FindIndex(all, call.id)] =
                          [id |-> call.id, name |-> call.name]])
      [] OTHER ->
            IF Len(SelectSeq(all, LAMBDA item : item.id # call.id)) = Len(all)
            THEN None
            ELSE Some(SelectSeq(all, LAMBDA item : item.id # call.id))

\* addLandmark, updateLandmark or deleteLandmark is called: it awaits
\* readLandmarks
CallMutation(o, call) ==
    /\ mut[o].pc = "idle"
    /\ mut' = [mut EXCEPT ![o] = [pc |-> "reading", call |-> call, result |-> ""]]
    /\ UNCHANGED <<now, cacheVars, rateVars, envVars, resolveVars, matrixVars, parseVars,
                   dataFile, writeQueue, fw>>

\* fs.readFile settles: the caller goes on with the landmarks the file holds
\* now, and returns, or chains its write onto writeQueue and awaits it
ReadLandmarksSettles(o) ==
    /\ mut[o].pc = "reading"
    /\ \E w \in {MutatedLandmarks(o, mut[o].call, dataFile)} :
           IF w = None
           THEN /\ mut' = [mut EXCEPT ![o].pc = "done", ![o].result = "absent"]
                /\ UNCHANGED writeQueue
           ELSE /\ mut' = [mut EXCEPT ![o].pc = "writing"]
                /\ writeQueue' = Append(writeQueue, [by |-> o, validated |-> w[1]])
    /\ UNCHANGED <<now, cacheVars, rateVars, envVars, resolveVars, matrixVars, parseVars,
                   dataFile, fw>>

\* the first write of writeQueue settles: fs.writeFile has replaced the file,
\* or has thrown, and the caller that awaits it goes on
WriteLandmarksSettles(ok) ==
    /\ writeQueue # <<>>
    /\ dataFile' = IF ok THEN Head(writeQueue).validated ELSE dataFile
    /\ writeQueue' = Tail(writeQueue)
    /\ mut' = [mut EXCEPT ![Head(writeQueue).by].pc = "done",
                          ![Head(writeQueue).by].result = IF ok THEN "ok" ELSE "threw"]
    /\ UNCHANGED <<now, cacheVars, rateVars, envVars, resolveVars, matrixVars, parseVars, fw>>

(***************************************************************************)
(* landmarks-store at the level of its fs calls: ensureDataFileExists,     *)
(* the tasks chained on writeQueue, readLandmarks beside them              *)
(***************************************************************************)
\* the callers of writeLandmarks and of readLandmarks
Writers == {"w1", "w2"}
Readers == {"r1"}
Agents == Writers \cup Readers

\* the list a writer hands to writeLandmarks
ValidatedOf(o) == <<[id |-> o, name |-> "Kew"]>>

IdleAgent == [pc |-> "idle", failed |-> FALSE]

\* writeQueue.catch(() => undefined).then(task): the task runs whether the
\* promise before it was fulfilled or rejected
RunsAfter(previous) == TRUE

\* writeLandmarks up to its await: the task is chained on writeQueue
WriteLandmarksCalled(o) ==
    /\ o \in Writers
    /\ fw.agents[o].pc = "idle"
    /\ fw' = [fw EXCEPT !.agents[o].pc = "queued",
                        !.chain = Append(@, o),
                        !.called = Append(@, o)]
    /\ UNCHANGED <<now, cacheVars, rateVars, envVars, resolveVars, matrixVars, parseVars,
                   dataFile, writeQueue, mut>>

\* readLandmarks up to its first await: fs.access of ensureDataFileExists
ReadLandmarksCalled(r) ==
    /\ r \in Readers
    /\ fw.agents[r].pc = "idle"
    /\ fw' = [fw EXCEPT !.agents[r].pc = "access"]
    /\ UNCHANGED <<now, cacheVars, rateVars, envVars, resolveVars, matrixVars, parseVars,
                   dataFile, writeQueue, mut>>

\* the promise before the first task of the chain has settled: the task
\* starts with the fs.access of ensureDataFileExists
QueuedWriteStarts ==
    /\ fw.chain # <<>>
    /\ fw.agents[Head(fw.chain)].pc = "queued"
    /\ IF RunsAfter(fw.settledAs)
       THEN fw' = [fw EXCEPT !.agents[Head(fw.chain)].pc = "access"]
       ELSE fw' = [fw EXCEPT !.agents[Head(fw.chain)].pc = "rejected",
                             !.chain = Tail(@)]
    /\ UNCHANGED <<now, cacheVars, rateVars, envVars, resolveVars, matrixVars, parseVars,
                   dataFile, writeQueue, mut>>

\* what an agent does when ensureDataFileExists has returned: the task calls
\* fs.writeFile with its list, readLandmarks calls fs.readFile
AfterEnsure(f, a) ==
    IF a \in Writers
    THEN [f EXCEPT !.agents[a].pc = "write", !.writes = @ \cup {<<a, "list">>},
                   !.performed = Append(@, a)]
    ELSE [f EXCEPT !.agents[a].pc = "read"]

\* the agent is through: a task settles and leaves the chain, readLandmarks
\* returns or throws
Settled(f, a, ok) ==
    IF a \in Writers
    THEN [f EXCEPT !.agents[a].pc = IF ok THEN "returned" ELSE "rejected",
                   !.agents[a].failed = ~ok,
                   !.chain = Tail(@),
                   !.settledAs = IF ok THEN "fulfilled" ELSE "rejected"]
    ELSE [f EXCEPT !.agents[a].pc = IF ok THEN "returned" ELSE "rejected",
                   !.agents[a].failed = ~ok]

\* fs.access settles: the file is there, or mkdir is called
AccessSettles(a) ==
    /\ fw.agents[a].pc = "access"
    /\ fw' = IF fw.exists THEN AfterEnsure(fw, a)
             ELSE [fw EXCEPT !.agents[a].pc = "mkdir"]
    /\ UNCHANGED <<now, cacheVars, rateVars, envVars, resolveVars, matrixVars, parseVars,
                   dataFile, writeQueue, mut>>

\* fs.mkdir settles: fs.writeFile(DATA_FILE_PATH, "[]") is called
MkdirSettles(a) ==
    /\ fw.agents[a].pc = "mkdir"
    /\ fw' = [fw EXCEPT !.agents[a].pc = "create", !.writes = @ \cup {<<a, "[]">>}]
    /\ UNCHANGED <<now, cacheVars, rateVars, envVars, resolveVars, matrixVars, parseVars,
                   dataFile, writeQueue, mut>>

\* the write of "[]" settles: the file holds the empty list, or the write
\* has thrown and so does ensureDataFileExists
CreateSettles(a, ok) ==
    /\ fw.agents[a].pc = "create"
    /\ \E f \in {[fw EXCEPT !.writes = @ \ {<<a, "[]">>},
                             !.exists = IF ok THEN TRUE ELSE @,
                             !.content = IF ok THEN <<>> ELSE @]} :
           fw' = IF ok THEN AfterEnsure(f, a) ELSE Settled(f, a, FALSE)
    /\ UNCHANGED <<now, cacheVars, rateVars, envVars, resolveVars, matrixVars, parseVars,
                   dataFile, writeQueue, mut>>

\* the write of the list settles: the file holds it, or the write has thrown
ListWriteSettles(a, ok) ==
    /\ fw.agents[a].pc = "write"
    /\ \E f \in {[fw EXCEPT !.writes = @ \ {<<a, "list">>},
                             !.exists = IF ok THEN TRUE ELSE @,
                             !.content = IF ok THEN ValidatedOf(a) ELSE @]} :
           fw' = Settled(f, a, ok)
    /\ UNCHANGED <<now, cacheVars, rateVars, envVars, resolveVars, matrixVars, parseVars,
                   dataFile, writeQueue, mut>>

\* fs.readFile settles and readLandmarks returns
ReadFileSettles(r) ==
    /\ fw.agents[r].pc = "read"
    /\ fw' = Settled(fw, r, fw.exists)
    /\ UNCHANGED <<now, cacheVars, rateVars, envVars, resolveVars, matrixVars, parseVars,
                   dataFile, writeQueue, mut>>

\* a fresh installation: data/landmarks.json is not there yet
FileInit ==
    fw = [exists |-> FALSE, content |-> <<>>, writes |-> {}, chain |-> <<>>,
          settledAs |-> "fulfilled", agents |-> [a \in Agents |-> IdleAgent],
          called |-> <<>>, performed |-> <<>>]

StoreInit ==
    /\ dataFile = <<[id |-> "l0", name |-> "Kew"]>>
    /\ writeQueue = <<>>
    /\ mut = [o \in Callers |-> IdleMutation]
    /\ FileInit

(***************************************************************************)
(* Specifications                                                          *)
(***************************************************************************)
Init ==
    /\ now = 0
    /\ CacheInit
    /\ RateInit
    /\ ResolveInit
    /\ MatrixInit
    /\ ParseInit
    /\ StoreInit

NextCache ==
    \/ \E k \in CacheKeys, v \in CacheValues, ttl \in TtlChoices : CacheSet(k, v, ttl)
    \/ \E k \in CacheKeys : CacheGet(k)
    \/ Tick

SpecCache == Init /\ [][NextCache]_vars

NextRate ==
    \/ \E k \in RateKeys : CheckRateLimit(k)
    \/ Tick

SpecRate == Init /\ [][NextRate]_vars

\* concurrent requests of clients that share a key
PostKeys == {"wide"}
NextPost ==
    \/ \E h \in PostHandlers, k \in PostKeys : PostStarts(h, k)
    \/ \E h \in PostHandlers, status \in PostStatuses : PostResponds(h, status)
    \/ Tick

SpecPost == Init /\ [][NextPost]_vars

\* Requests of one client to the handlers. The handlers have keys of their
\* own and share no bucket: a behaviour is one of requests to one handler.
NextHandlers ==
    \/ \E s \in HandlerSlots, kind \in HandlerKinds :
           /\ \A other \in HandlerSlots : hd[other].pc = "idle" \/ hd[other].kind = kind
           /\ HandlerStarts(s, kind)
    \/ \E s \in HandlerSlots, i \in 1..4 : HandlerActs(s, i)
    \/ \E s \in HandlerSlots, status \in {200, 201, 500} : HandlerResponds(s, status)
    \/ Tick

SpecHandlers == Init /\ [][NextHandlers]_vars

\* landmark mutations of two requests at the same time
NextStore ==
    \/ \E o \in Callers, call \in MutationCalls : CallMutation(o, call)
    \/ \E o \in Callers : ReadLandmarksSettles(o)
    \/ \E ok \in BOOLEAN : WriteLandmarksSettles(ok)

SpecStore == Init /\ [][NextStore]_vars

\* two writeLandmarks calls and a readLandmarks call at the same time
NextFile ==
    \/ \E o \in Writers : WriteLandmarksCalled(o)
    \/ \E r \in Readers : ReadLandmarksCalled(r)
    \/ QueuedWriteStarts
    \/ \E a \in Agents : AccessSettles(a)
    \/ \E a \in Agents : MkdirSettles(a)
    \/ \E a \in Agents, ok \in BOOLEAN : CreateSettles(a, ok)
    \/ \E o \in Writers, ok \in BOOLEAN : ListWriteSettles(o, ok)
    \/ \E r \in Readers : ReadFileSettles(r)

SpecFile == Init /\ [][NextFile]_vars

NextResolve ==
    \/ \E input \in ResolveInputs : StartResolve(input)
    \/ \E outcome \in FetchOutcomes : ExpandFetchSettles(outcome)
    \/ \E answer \in GeocodeAnswers : GeocodeSettles(answer)
    \/ ResolveReturns
    \/ \E d \in AdvanceSteps(rs.pc) : Advance(d)

SpecResolve == Init /\ [][NextResolve]_vars

\* resolutions in a row, the API key set for some and not for others
NextGeocode ==
    \/ NextResolve
    \/ KeyChanges

SpecGeocode == Init /\ [][NextGeocode]_vars

NextMatrix ==
    \/ \E target \in MatrixTargets, n \in 0..MaxLandmarks, mode \in TravelModes :
           ComputeMatrix(target, n, mode)
    \/ \E i \in 1..MaxLandmarks, direction \in {"toLandmark", "toTarget"},
             answer \in DistanceAnswers : DistanceSettles(i, direction, answer)
    \/ \E d \in MatrixAdvanceSteps(mx, now) : Advance(d)

SpecMatrix == Init /\ [][NextMatrix]_vars

NextDistance ==
    \/ \E call \in DistanceCalls : CallDistance(call.origin, call.destination, call.mode)
    \/ \E answer \in DistanceCallAnswers : DistanceCallSettles(answer)
    \/ DistanceCallReturns
    \/ \E d \in DistanceAdvanceSteps(dc) : Advance(d)

SpecDistance == Init /\ [][NextDistance]_vars

\* The outbound calls of the core. The resolver and the matrix share the
\* clock and the API key and nothing else: a behaviour is one of
\* resolutions, or one of a matrix computed from the start.
NextProvider ==
    \/ /\ mx = IdleMatrix
       /\ NextResolve
    \/ /\ rs = IdleResolve
       /\ mx.pc = "idle" => now = 0
       /\ NextMatrix

SpecProvider == Init /\ [][NextProvider]_vars

\* setTimeout(() => controller.abort(), 10000) and (..., 15000): the times
\* at which the abort timers of the calls in flight are due
TimersDue(r, m) ==
    {r.started + ExpandTimeoutMs : x \in {1 : y \in {r.pc} \cap {"fetching"}}}
    \cup {r.started + FetchJsonTimeoutMs : x \in {1 : y \in {r.pc} \cap {"geocoding"}}}
    \cup {m.legs[i][direction].started + FetchJsonTimeoutMs :
              <<i, direction>> \in {c \in (1..Len(m.legs)) \X {"toLandmark", "toTarget"} :
                                       m.legs[c[1]][c[2]].state = "pending"}}

\* the clock of the event loop reaches the first abort timer that is due
\* while the call it guards is still in flight
TimerRuns ==
    /\ \E due \in TimersDue(rs, mx) :
           /\ \A other \in TimersDue(rs, mx) : due <= other
           /\ now < due
           /\ now' = due
    /\ UNCHANGED <<cacheVars, rateVars, envVars, resolveVars, matrixVars, parseVars,
                   storeVars>>

\* The outbound calls with a remote side that answers in time, fails or
\* never answers. Only the timers and the aborts they cause are certain:
\* no answer of the remote side is.
NextSettles ==
    \/ /\ mx = IdleMatrix
       /\ \/ \E input \in ResolveInputs : StartResolve(input)
          \/ \E outcome \in FetchOutcomes : ExpandFetchSettles(outcome)
          \/ \E answer \in GeocodeAnswers : GeocodeSettles(answer)
          \/ ResolveReturns
    \/ /\ rs = IdleResolve
       /\ \/ \E target \in MatrixTargets, n \in 0..MaxLandmarks, mode \in TravelModes :
                 ComputeMatrix(target, n, mode)
          \/ \E i \in 1..MaxLandmarks, direction \in {"toLandmark", "toTarget"},
                   answer \in DistanceAnswers : DistanceSettles(i, direction, answer)
    \/ TimerRuns

SpecSettles ==
    /\ Init
    /\ [][NextSettles]_vars
    /\ WF_vars(TimerRuns)
    /\ WF_vars(ExpandFetchSettles([kind |-> "abort", url |-> <<>>]))
    /\ WF_vars(GeocodeSettles(TransportFailure("abort")))
    /\ WF_vars(\E i \in 1..MaxLandmarks, direction \in {"toLandmark", "toTarget"} :
                   DistanceSettles(i, direction, DistanceFailure("abort")))

NextParse ==
    \/ \E input \in ParseInputs : CallExtractGeocodeCandidates(input)
    \/ \E input \in CoordinateInputs : CallExtractCoordinates(input)

SpecParse == Init /\ [][NextParse]_vars

NextConvert ==
    \/ \E input \in ConversionInputs, inTraffic \in BOOLEAN :
           CallDistanceOutcome(input[1], input[2], inTraffic)
    \/ \E duration \in DurationChoices, inTraffic \in DurationChoices :
           CallDurationChoice(duration, inTraffic)

SpecConvert == Init /\ [][NextConvert]_vars

(***************************************************************************)
(* C1: TTLCache.get never returns a stale value. A get on k at time t      *)
(* returns a value only when the most recent set on k stored that value    *)
(* at some time s with t <= s + ttl; when t > s + ttl it returns null and  *)
(* the entry is gone from the store.                                       *)
(***************************************************************************)
C1_GetNeverStale ==
    cacheLast.op = "get" =>
        LET k == cacheLast.key
            s == cacheSets[k]
        IN  /\ cacheLast.ret # None =>
                /\ s # None
                /\ cacheLast.ret = Some(s[1].value)
                /\ cacheLast.at <= s[1].at + s[1].ttl
            /\ (s # None /\ cacheLast.at > s[1].at + s[1].ttl) =>
                /\ cacheLast.ret = None
                /\ k \notin DOMAIN cache

\* a get that found its entry stale and purged it, another key still stored
C1_Witness ==
    /\ cacheLast.op = "get"
    /\ cacheSets[cacheLast.key] # None
    /\ cacheLast.at > cacheSets[cacheLast.key][1].at + cacheSets[cacheLast.key][1].ttl
    /\ cacheLast.ret = None
    /\ \E k \in DOMAIN cache : k # cacheLast.key

(***************************************************************************)
(* C2: checkRateLimit on one key with fixed maxRequests >= 1 and windowMs: *)
(* counted from the call that opens a window (no bucket, or a time after   *)
(* resetAt), the first maxRequests calls at times <= resetAt return true   *)
(* and every further one returns false; the opening call returns true and  *)
(* leaves the bucket {count: 1, resetAt: now + windowMs}.                  *)
(***************************************************************************)
C2_WindowAdmission ==
    \A k \in RateKeys :
        (MaxRequestsOf(k) >= 1 /\ rlLast[k] # None) =>
            /\ rlLast[k][1].ret = (rlCalls[k] <= MaxRequestsOf(k))
            /\ rlCalls[k] = 1 =>
                buckets[k] = Some([count |-> 1, resetAt |-> rlLast[k][1].at + WindowMs])

\* a key denied inside its window and another admitted again in a fresh window
C2_Witness ==
    /\ rlLast["wide"] # None /\ rlLast["wide"][1].ret = FALSE
    /\ rlCalls["wide"] = MaxRequests + 1
    /\ rlLast["one"] # None /\ rlLast["one"][1].ret = TRUE
    /\ rlCalls["one"] = 1
    /\ rlLast["one"][1].at > WindowMs

(***************************************************************************)
(* Properties of the rate limiter under concurrent requests and bursts     *)
(***************************************************************************)
\* the requests admitted for the key in its current window
AdmittedInWindow(k) ==
    {i \in 1..Len(rlAdmits[k]) : rlOpen[k] # None /\ rlAdmits[k][i] >= rlOpen[k][1]}

(* C21: under every interleaving of concurrent POST requests that share a     *)
(* key (maxRequests >= 1), no increment is lost (the count of the bucket is   *)
(* the number of requests admitted in its window) and the number of requests  *)
(* admitted in one window never exceeds maxRequests; a request that is not    *)
(* admitted is answered 429.                                                  *)
C21_NoLostIncrement ==
    \A k \in PostKeys :
        buckets[k] # None =>
            /\ buckets[k][1].count = Cardinality(AdmittedInWindow(k))
            /\ Cardinality(AdmittedInWindow(k)) <= MaxRequestsOf(k)
            /\ \A h \in PostHandlers :
                   (rq[h].pc # "idle" /\ ~rq[h].admitted) => rq[h].status = 429

\* three requests with one key at the same time: two are admitted and still
\* await their bodies when the third is turned away
C21_Witness ==
    /\ rq["h1"].pc = "body" /\ rq["h1"].key = "wide"
    /\ rq["h2"].pc = "body" /\ rq["h2"].key = "wide"
    /\ rq["h3"].pc = "responded" /\ rq["h3"].key = "wide" /\ rq["h3"].status = 429
    /\ rq["h1"].at = rq["h3"].at /\ rq["h2"].at = rq["h3"].at

\* the calls admitted for the key in the span a .. a + length
AdmittedInSpan(k, a, length) ==
    Cardinality({i \in 1..Len(rlAdmits[k]) :
                    a <= rlAdmits[k][i] /\ rlAdmits[k][i] <= a + length})

Other(o) == CHOOSE c \in Callers : c # o

Stored(id) == \E i \in 1..Len(dataFile) : dataFile[i].id = id

\* the stored list shows what the caller's mutation did, as far as the other
\* caller's mutation, in either order, lets it show
Reflects(o) ==
    CASE mut[o].call.kind = "add" ->
            \E i \in 1..Len(dataFile) :
                dataFile[i] = [id |-> NewId(o), name |-> mut[o].call.name]
      [] mut[o].call.kind = "delete" -> ~Stored(mut[o].call.id)
      [] OTHER ->
            \/ mut[Other(o)].call.id = mut[o].call.id
            \/ \E i \in 1..Len(dataFile) :
                   dataFile[i] = [id |-> mut[o].call.id, name |-> mut[o].call.name]

BothCompleted == \A o \in Callers : mut[o].pc = "done" /\ mut[o].result = "ok"

(* C23: when two landmark mutations run at the same time and both complete    *)
(* successfully, the stored list reflects both: an added landmark is stored,  *)
(* a deleted one is not, an updated one has its new name.                     *)
C23_NoLostUpdate == BothCompleted => \A o \in Callers : Reflects(o)

\* two addLandmark calls have both returned their landmark and the file holds
\* only one of the two
C23_Witness ==
    /\ BothCompleted
    /\ \A o \in Callers : mut[o].call.kind = "add"
    /\ Len(dataFile) = 2
    /\ ~Stored(NewId("p"))
    /\ Stored(NewId("q"))

(***************************************************************************)
(* Properties of resolveCoordinatesFromInput                               *)
(***************************************************************************)
Min(S) == CHOOSE x \in S : \A y \in S : x <= y

\* the geocoding provider was asked for the candidate of this trace entry
IsProviderCall(entry) == entry.via = "provider"
IsHardError(entry) ==
    /\ entry.via = "provider"
    /\ \/ entry.answer.kind # "payload"
       \/ entry.answer.status \notin {"OK", "ZERO_RESULTS"}
IsZeroResults(entry) ==
    entry.via = "provider" /\ entry.answer.kind = "payload"
                           /\ entry.answer.status = "ZERO_RESULTS"
AnswersOk(entry) ==
    entry.via = "provider" /\ entry.answer.kind = "payload" /\ entry.answer.status = "OK"
Expanded(r) == r.pc \notin {"idle", "fetching"} /\ r.error # "fetch failed"

(* C3: whenever extractCoordinatesFromGoogleMapsUrl succeeds on a parse       *)
(* candidate, resolveCoordinatesFromInput returns the coordinates of the      *)
(* first such candidate in the order [expanded, original] ([original] alone   *)
(* when the expansion left the string unchanged), no geocoding call has been  *)
(* made or is pending, and this holds with and without an API key.            *)
C3_LiteralPrecedence ==
    Expanded(rs) =>
        LET order == IF rs.expanded = rs.trimmed THEN <<rs.trimmed>>
                     ELSE <<rs.expanded, rs.trimmed>>
            hits == {i \in 1..Len(order) : LiteralOf[order[i]] # None}
        IN  hits # {} =>
                /\ rs.pc = "done"
                /\ rs.result = LiteralOf[order[Min(hits)]]
                /\ rs.trace = <<>>
                /\ rs.geocodeCandidates = <<>>

\* no API key; the short link and its expansion both hold literal coordinates,
\* different ones, and the expansion's are returned
C3_Witness ==
    /\ ~apiKey
    /\ rs.pc = "done"
    /\ rs.input = InShortWithPair
    /\ rs.expanded = FinalWithPair
    /\ LiteralOf[rs.trimmed] # None
    /\ LiteralOf[rs.trimmed] # LiteralOf[FinalWithPair]
    /\ rs.result = LiteralOf[FinalWithPair]

(* C4, as the claim states it: the geocode candidates are tried in their      *)
(* first-seen order; the first candidate for which the provider answers OK    *)
(* (now or, through the geocode cache, earlier) ends the resolution with      *)
(* coordinates and no later candidate is sent to the provider; after          *)
(* ZERO_RESULTS the next candidate is tried; when every candidate had no      *)
(* result the resolution returns null and does not throw.                     *)
C4_FirstOkWins ==
    LET n == Len(rs.trace)
        last == Len(rs.geocodeCandidates)
    IN  /\ \A j \in 1..n : rs.trace[j].candidate = rs.geocodeCandidates[j]
        /\ \A j \in 1..n :
              (AnswersOk(rs.trace[j]) \/ rs.trace[j].via = "cache") =>
                  /\ j = n
                  /\ rs.pc = "done"
                  /\ rs.result # None
        /\ \A j \in 1..n :
              IsZeroResults(rs.trace[j]) =>
                  IF j < last
                  THEN j < n \/ (rs.pc = "geocoding" /\ rs.index = j + 1)
                  ELSE rs.pc = "done" /\ rs.result = None
        /\ (n = last /\ n > 0 /\ \A j \in 1..n : IsZeroResults(rs.trace[j])) =>
              (rs.pc = "done" /\ rs.result = None)

\* the provider answers OK without a location for the first candidate and OK
\* with a location for the second one, whose coordinates are returned
C4_Witness ==
    /\ rs.pc = "done"
    /\ Len(rs.trace) = 2
    /\ AnswersOk(rs.trace[1])
    /\ rs.trace[1].answer.location = None
    /\ AnswersOk(rs.trace[2])
    /\ rs.result # None

(* C5: a hard error of the geocoding provider on a candidate (a status other  *)
(* than OK and ZERO_RESULTS, or a transport failure) is the last thing the    *)
(* resolution does: it fails, returns no coordinates, and no candidate after  *)
(* that one is sent to the provider.                                          *)
C5_HardErrorPropagates ==
    \A j \in 1..Len(rs.trace) :
        IsHardError(rs.trace[j]) =>
            /\ j = Len(rs.trace)
            /\ rs.pc = "failed"
            /\ rs.result = None
            /\ rs.index = j

\* the provider fails with a bad status on a candidate that is not the last
\* one, after an earlier candidate had no result
C5_Witness ==
    /\ rs.pc = "failed"
    /\ Len(rs.trace) = 2
    /\ IsZeroResults(rs.trace[1])
    /\ rs.trace[2].answer.status = "OVER_QUERY_LIMIT"
    /\ Len(rs.geocodeCandidates) > 2

(* C8: maybeExpandShortMapsUrl never throws and always gives a string: the    *)
(* final URL of the response, or the trimmed input when the response has no   *)
(* URL, when the fetch fails or when it is aborted on the 10 s timer.         *)
C8_ExpansionNeverFails ==
    /\ rs.error # "fetch failed"
    /\ (rs.pc \notin {"idle", "fetching"}) =>
          /\ rs.expanded # <<>>
          /\ (rs.fetchOutcome.kind \in {"network error", "abort"}) =>
                (rs.expanded = rs.trimmed)
          /\ (rs.fetchOutcome.kind = "response") =>
                (rs.expanded = IF rs.fetchOutcome.url # <<>> THEN rs.fetchOutcome.url
                               ELSE rs.trimmed)

\* the fetch was aborted by the timer and the resolution went on with the
\* trimmed short link
C8_Witness ==
    /\ rs.fetchOutcome.kind = "abort"
    /\ now >= ExpandTimeoutMs
    /\ rs.expanded = rs.trimmed
    /\ rs.pc = "geocoding"

(* C10, as the claim states it: the coordinates resolveCoordinatesFromInput   *)
(* returns, from literal parsing or from the provider, have a finite lat in   *)
(* [-90, 90] and a finite lng in [-180, 180].                                 *)
C10_ReturnedCoordinatesValid ==
    (rs.pc = "done" /\ rs.result # None) =>
        IsValidCoordinates(rs.result[1].lat, rs.result[1].lng)

\* the provider's answer holds lat 91 and a lng beyond every number, and
\* they are returned
C10_Witness ==
    /\ rs.pc = "done"
    /\ rs.result # None
    /\ rs.trace # <<>>
    /\ AnswersOk(rs.trace[Len(rs.trace)])
    /\ ~NumLeqInt(rs.result[1].lat, 90)
    /\ ~rs.result[1].lng.finite

\* the provider answers OK, and the answer has no location with a numeric lat
\* and a numeric lng
IsMalformedOk(entry) ==
    /\ AnswersOk(entry)
    /\ \/ entry.answer.location = None
       \/ entry.answer.location[1].lat.type # "number"
       \/ entry.answer.location[1].lng.type # "number"

(* C14, as the claim states it: a geocoding answer with status OK and no       *)
(* numeric lat/lng location makes the resolution fail with a message; the      *)
(* candidate is not skipped in favour of the next one and the resolution does  *)
(* not end with "no result".                                                   *)
C14_MalformedAnswerFails ==
    \A j \in 1..Len(rs.trace) :
        IsMalformedOk(rs.trace[j]) =>
            /\ j = Len(rs.trace)
            /\ rs.pc = "failed"
            /\ rs.error # ""
            /\ rs.result = None

\* the provider answers OK with a lat that is a string for the only
\* candidate, and the resolution ends with null as if nothing was found
C14_Witness ==
    /\ rs.pc = "done"
    /\ rs.result = None
    /\ rs.error = ""
    /\ Len(rs.trace) = 1
    /\ Len(rs.geocodeCandidates) = 1
    /\ AnswersOk(rs.trace[1])
    /\ rs.trace[1].answer.location # None
    /\ rs.trace[1].answer.location[1].lat.type = "string"

(***************************************************************************)
(* Properties of the travel matrix                                         *)
(***************************************************************************)
LegsSettled(pair) == pair.toLandmark.state # "pending" /\ pair.toTarget.state # "pending"

(* C6: the two legs of a landmark are independent. For every landmark whose   *)
(* legs have both settled, whatever the outcomes, the row exists, its         *)
(* to_landmark is present exactly when the target -> landmark call succeeded  *)
(* (and is that call's value) and its to_target is present exactly when the   *)
(* landmark -> target call succeeded (and is that call's value).              *)
C6_LegsIndependent ==
    \A i \in 1..Len(mx.legs) :
        LegsSettled(mx.legs[i]) =>
            /\ mx.rows[i].row # None
            /\ (mx.rows[i].row[1].to_landmark # None)
                   <=> (mx.legs[i].toLandmark.state = "fulfilled")
            /\ (mx.rows[i].row[1].to_target # None)
                   <=> (mx.legs[i].toTarget.state = "fulfilled")
            /\ mx.rows[i].row[1].to_landmark = mx.legs[i].toLandmark.value
            /\ mx.rows[i].row[1].to_target = mx.legs[i].toTarget.value

\* the response holds a row whose target -> landmark leg failed and whose
\* landmark -> target leg succeeded: to_target is there, with one error
C6_Witness ==
    /\ mx.response # None
    /\ \E i \in 1..Len(mx.legs) :
          /\ mx.legs[i].toLandmark.state = "rejected"
          /\ mx.legs[i].toTarget.state = "fulfilled"
          /\ mx.response[1].results[i].to_target # None
          /\ mx.response[1].results[i].to_landmark = None
          /\ mx.response[1].results[i].error
                 = Some("target -> landmark failed: " \o mx.legs[i].toLandmark.reason)

(* C7: with landmarks to compute, the matrix is answered exactly when both    *)
(* legs of every landmark have settled, in whatever order they did; the       *)
(* answer is then the 200 response with one row per landmark, also when legs  *)
(* have failed.                                                               *)
C7_ReturnsAfterAllSettle ==
    Len(mx.legs) > 0 =>
        /\ (mx.response # None) <=> (\A i \in 1..Len(mx.legs) : LegsSettled(mx.legs[i]))
        /\ (mx.response # None) =>
              /\ mx.response[1].status = 200
              /\ Len(mx.response[1].results) = Len(mx.landmarks)

\* two landmarks; a leg of the first one failed and a leg of the second one
\* was aborted on its timer, and the matrix is answered with both rows
C7_Witness ==
    /\ Len(mx.legs) = 2
    /\ mx.response # None
    /\ mx.response[1].status = 200
    /\ mx.legs[1].toTarget.state = "rejected"
    /\ mx.legs[2].toLandmark.reason = "abort"
    /\ mx.legs[2].toTarget.state = "fulfilled"

(* C26: the error of a row follows from the outcomes of its legs: it is       *)
(* absent exactly when both legs succeeded; otherwise it holds one entry per   *)
(* failed leg that names the direction, "target -> landmark failed: ..."       *)
(* first and "landmark -> target failed: ..." second, with " | " between       *)
(* them when both legs failed.                                                 *)
C26_RowErrorFromLegs ==
    \A i \in 1..Len(mx.legs) :
        LegsSettled(mx.legs[i]) =>
            mx.rows[i].row[1].error =
                CASE /\ mx.legs[i].toLandmark.state = "fulfilled"
                     /\ mx.legs[i].toTarget.state = "fulfilled" -> None
                  [] /\ mx.legs[i].toLandmark.state = "rejected"
                     /\ mx.legs[i].toTarget.state = "fulfilled" ->
                         Some("target -> landmark failed: " \o mx.legs[i].toLandmark.reason)
                  [] /\ mx.legs[i].toLandmark.state = "fulfilled"
                     /\ mx.legs[i].toTarget.state = "rejected" ->
                         Some("landmark -> target failed: " \o mx.legs[i].toTarget.reason)
                  [] OTHER ->
                         Some("target -> landmark failed: " \o mx.legs[i].toLandmark.reason
                              \o " | "
                              \o "landmark -> target failed: " \o mx.legs[i].toTarget.reason)

\* the matrix is answered with a row both of whose legs failed, each for a
\* reason of its own
C26_Witness ==
    /\ mx.response # None
    /\ \E i \in 1..Len(mx.legs) :
          /\ mx.legs[i].toLandmark.state = "rejected"
          /\ mx.legs[i].toTarget.state = "rejected"
          /\ mx.legs[i].toLandmark.reason # mx.legs[i].toTarget.reason
          /\ mx.response[1].results[i].error # None

\* the legs of the running matrix, and the cache key of a leg
MatrixLegs(m) == (1..Len(m.legs)) \X {"toLandmark", "toTarget"}
LegKey(m, leg) ==
    IF leg[2] = "toLandmark"
    THEN DistanceCacheKey(m.target[1], LandmarkCoordinates(m.landmarks[leg[1]]), m.mode)
    ELSE DistanceCacheKey(LandmarkCoordinates(m.landmarks[leg[1]]), m.target[1], m.mode)

(***************************************************************************)
(* Properties of the geocode cache and of the distance cache               *)
(***************************************************************************)
\* the resolution is at, or has ended at, the candidate at rs.index
AtCandidate(r) ==
    /\ r.pc \in {"geocoding", "done", "failed"}
    /\ r.index \in 1..Len(r.geocodeCandidates)

(* C29: after a successful geocode of a candidate, a geocodeCandidate call    *)
(* started after it and within 24 h for a candidate that differs from it at   *)
(* most in letter case returns the same coordinates, from the cache: no       *)
(* provider call is made and no API key is asked for.                         *)
C29_CaseInsensitiveHit ==
    (/\ rs.last # None
     /\ AtCandidate(rs)
     /\ rs.last[1].run < rs.runs
     /\ ToLowerCase(rs.geocodeCandidates[rs.index]) = ToLowerCase(rs.last[1].candidate)
     /\ now <= rs.last[1].at + GeocodeTtlMs) =>
        /\ rs.pc = "done"
        /\ rs.result = rs.last[1].coords
        /\ rs.trace[Len(rs.trace)] = [candidate |-> rs.geocodeCandidates[rs.index],
                                      via |-> "cache", answer |-> NoAnswer]

\* "Soho" was geocoded; a later resolution of "SOHO", without an API key, has
\* the coordinates
C29_Witness ==
    /\ rs.last # None
    /\ rs.last[1].candidate = <<"S", "o", "h", "o">>
    /\ rs.last[1].run < rs.runs
    /\ rs.input = InOtherCase
    /\ ~apiKey
    /\ now > rs.last[1].at
    /\ rs.pc = "done"
    /\ rs.result = rs.last[1].coords

\* x rounded to 6 fractional digits, in millionths
RoundedMillionths(x) ==
    (CHOOSE it \in {( IF rounded.negative THEN 0 - rounded.millionths
                      ELSE rounded.millionths ) : rounded \in {ToFixed6(x)}} : TRUE)

\* two places agree to 6 fractional digits
AgreeToSixDigits(a, b) ==
    /\ RoundedMillionths(a.lat) = RoundedMillionths(b.lat)
    /\ RoundedMillionths(a.lng) = RoundedMillionths(b.lng)

\* the results stored that the running call may be served: stored at most 60 s
\* before it started, for the same mode, an origin that agrees with its
\* origin and a destination that agrees with its destination
Reusable(c) ==
    {s \in c.stored :
        /\ s.at <= c.started
        /\ c.started <= s.at + DistanceTtlMs
        /\ s.mode = c.mode
        /\ AgreeToSixDigits(s.origin, c.origin)
        /\ AgreeToSixDigits(s.destination, c.destination)}

(* C30: a getDistanceWithTraffic call is answered from the cache, without a   *)
(* provider call, only if a result was stored at most 60 s before it started  *)
(* for the same mode and for an origin and a destination that agree with its  *)
(* own to 6 fractional digits, and it returns the latest such result; a       *)
(* result stored for the reverse direction or for another mode is never       *)
(* served.                                                                    *)
C30_DistanceKey ==
    (dc.pc = "returned" /\ dc.via = "cache") =>
        \E s \in Reusable(dc) :
            /\ dc.result = Some(s.point)
            /\ \A other \in Reusable(dc) : other.at <= s.at

\* a result stored for one place is served, inside the minute, to a call from
\* the place that rounds to the same digits, while results for the reverse
\* direction or the other mode are stored too
C30_Witness ==
    /\ dc.pc = "returned"
    /\ dc.via = "cache"
    /\ \E s \in Reusable(dc) : s.origin # dc.origin /\ s.at < dc.started
    /\ \E s \in dc.stored :
           /\ s.at <= dc.started
           /\ dc.started <= s.at + DistanceTtlMs
           /\ \/ s.mode # dc.mode
              \/ AgreeToSixDigits(s.origin, dc.destination)
           /\ Some(s.point) # dc.result

(***************************************************************************)
(* Properties of the link expansion                                        *)
(***************************************************************************)
\* the running resolution is of an input that normalizes to the URL of the
\* last successful expansion, made by an earlier resolution at most 24 h ago
SameLinkAgain(r, t) ==
    /\ r.lastExpansion # None
    /\ r.pc # "idle"
    /\ r.lastExpansion[1].run < r.runs
    /\ UrlOf[r.trimmed] # None
    /\ UrlOf[r.trimmed][1].href = UrlOf[r.lastExpansion[1].trimmed][1].href
    /\ t <= r.lastExpansion[1].at + ShortUrlTtlMs

(* C31: after a successful expansion of a short link, a later                 *)
(* maybeExpandShortMapsUrl call, within the TTL, for an input that normalizes *)
(* to the same URL returns the same final URL and issues no outbound GET.     *)
C31_ExpansionCached ==
    SameLinkAgain(rs, now) =>
        /\ rs.pc # "fetching"
        /\ rs.fetches = 0
        /\ rs.expanded = rs.lastExpansion[1].value

\* the short link was expanded; a later resolution of the same link, typed in
\* capitals and after a space, has the final URL without a fetch
C31_Witness ==
    /\ SameLinkAgain(rs, now)
    /\ rs.input = InShortLinkOtherwise
    /\ rs.lastExpansion[1].trimmed = InShortLink
    /\ now > rs.lastExpansion[1].at
    /\ rs.expanded = FinalPlace
    /\ rs.fetches = 0

\* the path names a map or a place: it contains "/maps" or starts with "/kgs"
NamesMaps(path) ==
    \/ IndexOfFrom(path, <<"/", "m", "a", "p", "s">>, 1) # 0
    \/ HasAt(path, 1, <<"/", "k", "g", "s">>)

\* the text is no short link: it is no URL, or its host is none of the three
\* hosts, or its host is goo.gl or g.co and its path does not name maps
NoShortLinkAsWritten(text) ==
    UrlOf[text] # None =>
        \/ UrlOf[text][1].hostname \notin ShortMapsHosts
        \/ /\ UrlOf[text][1].hostname # HostMapsAppGooGl
           /\ ~NamesMaps(UrlOf[text][1].pathname)

\* the same with host and path compared in lower case
NoShortLink(text) ==
    UrlOf[text] # None =>
        \/ ToLowerCase(UrlOf[text][1].hostname) \notin ShortMapsHosts
        \/ /\ ToLowerCase(UrlOf[text][1].hostname) # HostMapsAppGooGl
           /\ ~NamesMaps(ToLowerCase(UrlOf[text][1].pathname))

\* the running call has started no fetch and holds the trimmed input
NothingExpanded(r) ==
    /\ r.pc # "fetching"
    /\ r.fetches = 0
    /\ r.expanded = r.trimmed

(* C32, as stated: for an input that is no URL, or whose host is none of      *)
(* maps.app.goo.gl, goo.gl and g.co, or whose host is goo.gl or g.co with a   *)
(* path that neither contains "/maps" nor starts with "/kgs",                 *)
(* maybeExpandShortMapsUrl issues no request, writes nothing to the cache and *)
(* returns the trimmed input.                                                 *)
C32_AsStated ==
    /\ []((rs.pc # "idle" /\ NoShortLinkAsWritten(rs.trimmed)) => NothingExpanded(rs))
    /\ [][(rs'.pc # "idle" /\ NoShortLinkAsWritten(rs'.trimmed)) =>
              shortUrlCache' = shortUrlCache]_vars

(* C32, amended: the same for a path that, in lower case, neither contains    *)
(* "/maps" nor starts with "/kgs".                                            *)
C32_OnlyShortLinks ==
    /\ []((rs.pc # "idle" /\ NoShortLink(rs.trimmed)) => NothingExpanded(rs))
    /\ [][(rs'.pc # "idle" /\ NoShortLink(rs'.trimmed)) =>
              shortUrlCache' = shortUrlCache]_vars

\* https://goo.gl/x is resolved while the cache holds an expansion: nothing
\* is fetched
C32_Witness ==
    /\ rs.input = InOtherPath
    /\ rs.pc \in {"geocoding", "done", "failed"}
    /\ NothingExpanded(rs)
    /\ shortUrlCache # EmptyStore

\* https://goo.gl/MAPS/x is fetched
C32_CapitalPathFetched ==
    /\ rs.input = InCapitalPath
    /\ rs.pc = "fetching"

(***************************************************************************)
(* Properties of the rows of the matrix                                    *)
(***************************************************************************)
(* C34: the matrix result has exactly one row per stored landmark, in the     *)
(* order of the landmark list, each with the id and the name of its           *)
(* landmark, whatever the order in which the provider calls complete.         *)
C34_RowPerLandmark ==
    (mx.response # None /\ mx.response[1].status = 200) =>
        /\ Len(mx.response[1].results) = Len(mx.landmarks)
        /\ \A i \in 1..Len(mx.landmarks) :
               /\ mx.response[1].results[i].landmarkId = mx.landmarks[i].id
               /\ mx.response[1].results[i].landmark = mx.landmarks[i].name

\* a call of the second landmark completed before any call of the first,
\* and the rows are in the order of the list
C34_Witness ==
    /\ mx.response # None
    /\ mx.response[1].status = 200
    /\ Len(mx.landmarks) = 2
    /\ mx.settled = <<2>>
    /\ mx.response[1].results[1].landmarkId = Landmark(1).id
    /\ mx.response[1].results[2].landmarkId = Landmark(2).id

(***************************************************************************)
(* Properties of the writes of the landmark file                           *)
(***************************************************************************)
\* the place of a writer in the order of the writeLandmarks calls
CalledAt(o) == CHOOSE i \in 1..Len(fw.called) : fw.called[i] = o

\* the lists are written in the order in which writeLandmarks was called
InCallOrder ==
    \A i \in 1..Len(fw.performed), j \in 1..Len(fw.performed) :
        i < j => CalledAt(fw.performed[i]) < CalledAt(fw.performed[j])

\* a caller is rejected only when a write of its own has thrown
OwnFailureOnly ==
    \A a \in Agents : fw.agents[a].pc = "rejected" => fw.agents[a].failed

(* C35: at most one write of the landmark file is in progress at any time,    *)
(* the writes are performed in the order in which writeLandmarks was called,  *)
(* and a write that fails rejects only its own caller, the writes queued      *)
(* after it still running.                                                    *)
C35_WritesSerialized ==
    /\ Cardinality(fw.writes) <= 1
    /\ InCallOrder
    /\ OwnFailureOnly

\* the file is not there yet: readLandmarks writes "[]" while the task of a
\* writeLandmarks call writes its list
C35_Witness ==
    /\ <<"r1", "[]">> \in fw.writes
    /\ \E o \in Writers : <<o, "list">> \in fw.writes

(***************************************************************************)
(* Properties of the API handlers                                          *)
(***************************************************************************)
(* C36: in every API handler (GET and POST landmarks, PUT and DELETE          *)
(* landmark, POST travel) the rate-limit check comes first: a request that    *)
(* checkRateLimit denies is answered 429 and causes no read or write of the   *)
(* landmark store, no link-expansion fetch, no geocoding call and no          *)
(* distance call.                                                             *)
C36_DeniedDoesNothing ==
    \A s \in HandlerSlots :
        (hd[s].pc # "idle" /\ ~hd[s].admitted) =>
            /\ hd[s].pc = "responded"
            /\ hd[s].status = 429
            /\ hd[s].effects = {}

\* a request to POST travel is denied while an earlier one, let through, has
\* read the landmarks and called the distance provider
C36_Witness ==
    /\ hd["s1"].kind = "travel:post" /\ hd["s1"].admitted
    /\ {"read", "distance"} \subseteq hd["s1"].effects
    /\ hd["s2"].kind = "travel:post" /\ hd["s2"].pc = "responded"
    /\ ~hd["s2"].admitted
    /\ hd["s2"].status = 429 /\ hd["s2"].effects = {}

(***************************************************************************)
(* Properties of the abort timers                                          *)
(***************************************************************************)
\* the calls in flight are exactly the ones with a timer armed
TimersMatchCalls ==
    /\ rs.timers = IF rs.pc = "fetching" THEN {"expand"}
                   ELSE IF rs.pc = "geocoding" THEN {"fetchJson"} ELSE {}
    /\ \A i \in 1..Len(mx.legs), direction \in {"toLandmark", "toTarget"} :
           mx.legs[i][direction].timers =
               IF mx.legs[i][direction].state = "pending" THEN {"fetchJson"} ELSE {}

\* a link expansion that settles once its 10 s are over goes on with the
\* trimmed input and caches nothing
ExpansionAborts ==
    (rs.pc = "fetching" /\ rs'.pc # "fetching" /\ now >= rs.started + ExpandTimeoutMs)
        => /\ rs'.fetchOutcome.kind = "abort"
           /\ rs'.expanded = rs.trimmed
           /\ rs'.pc \in {"geocoding", "done", "failed"}
           /\ shortUrlCache' = shortUrlCache

\* a geocoding call that settles once its 15 s are over fails its candidate,
\* and the resolution completes with that failure
GeocodeAborts ==
    (rs.pc = "geocoding" /\ rs'.trace # rs.trace /\ now >= rs.started + FetchJsonTimeoutMs)
        => /\ rs'.trace[Len(rs'.trace)].answer.kind = "abort"
           /\ rs'.pc = "failed"
           /\ geocodeCache' = geocodeCache

\* a leg that settles once its 15 s are over is a failed leg
LegAborts ==
    \A i \in 1..Len(mx.legs), direction \in {"toLandmark", "toTarget"} :
        (/\ mx.legs[i][direction].state = "pending"
         /\ Len(mx'.legs) = Len(mx.legs)
         /\ mx'.legs[i][direction].state # "pending"
         /\ now >= mx.legs[i][direction].started + FetchJsonTimeoutMs)
            => /\ mx'.legs[i][direction].state = "rejected"
               /\ distanceCache' = distanceCache

\* C37: every outbound call settles, by the abort of its timer (10 s for the
\* link expansion, 15 s for a provider call) when the remote side never
\* answers; an aborted expansion goes on with the trimmed input, an aborted
\* provider call is a failure of its candidate or leg; so a resolution and
\* a matrix computation that have started always complete, and no timer
\* stays armed once its call has settled.
C37_EveryCallSettles ==
    /\ (rs.pc \in {"fetching", "geocoding"}) ~> (rs.pc \in {"done", "failed"})
    /\ (mx.pc = "running") ~> (mx.pc = "responded")
    /\ []TimersMatchCalls
    /\ [][ExpansionAborts /\ GeocodeAborts /\ LegAborts]_vars

\* a resolution whose link expansion was aborted at 10 s and whose geocoding
\* call was aborted 15 s later has completed, with no timer left
C37_Witness ==
    /\ rs.pc = "failed"
    /\ rs.fetchOutcome.kind = "abort"
    /\ rs.expanded = rs.trimmed
    /\ rs.trace # <<>>
    /\ rs.trace[Len(rs.trace)].answer.kind = "abort"
    /\ now = ExpandTimeoutMs + FetchJsonTimeoutMs
    /\ rs.timers = {}

\* a matrix whose legs were never answered has responded at 15 s
C37_MatrixAborted ==
    /\ mx.pc = "responded"
    /\ now = FetchJsonTimeoutMs
    /\ \E i \in 1..Len(mx.legs) : mx.legs[i]["toLandmark"].reason = "abort"

(***************************************************************************)
(* Properties of the outbound calls                                        *)
(***************************************************************************)
ProviderEntries(r) == {j \in 1..Len(r.trace) : IsProviderCall(r.trace[j])}

\* within one resolution: at most one GET of the expansion, each geocode
\* candidate sent at most once, nothing sent after a failure
OneCallEach(r) ==
    /\ r.fetches <= 1
    /\ \A j, k \in ProviderEntries(r) :
           r.trace[j].candidate = r.trace[k].candidate => j = k
    /\ \A j \in ProviderEntries(r) : IsHardError(r.trace[j]) => j = Len(r.trace)

\* a step of the resolver or of the matrix re-issues no call: an expansion
\* that has settled, a resolution that has failed and a leg that has settled
\* stay as they are
NoCallReissued ==
    /\ (rs.pc # "idle" /\ rs'.pc # "idle") =>
           /\ rs'.fetches = rs.fetches
           /\ rs'.pc # "fetching" \/ rs.pc = "fetching"
           /\ rs.pc = "failed" => rs' = rs
    /\ (rs.pc = "fetching" /\ rs'.pc # "fetching"
            /\ rs'.fetchOutcome.kind \in {"network error", "abort"}) =>
           rs'.expanded = rs.trimmed
    /\ mx.pc # "idle" =>
           \A i \in 1..Len(mx.legs), direction \in {"toLandmark", "toTarget"} :
               /\ mx'.legs[i][direction].started = mx.legs[i][direction].started
               /\ mx.legs[i][direction].state # "pending" =>
                      mx'.legs[i][direction] = mx.legs[i][direction]
               /\ (/\ mx.legs[i][direction].state = "pending"
                   /\ mx'.legs[i][direction].state = "rejected") =>
                      /\ mx'.rows[i].row # None => mx'.rows[i].row[1].error # None

(* C27: no call is retried. Within one resolveCoordinatesFromInput call each  *)
(* geocode candidate is sent to the provider at most once and the link        *)
(* expansion issues at most one GET; within one matrix each directed leg      *)
(* issues at most one provider call; a failed call is surfaced (the           *)
(* resolution fails, the leg is rejected and named in the row's error) or,    *)
(* for the expansion, falls back to the input, and is not issued again.       *)
C27_NoRetries == [](OneCallEach(rs)) /\ [][NoCallReissued]_vars

\* a resolution that sent two candidates, the second after the first had no
\* result, and failed on the second: two provider calls, no third
C27_Witness ==
    /\ rs.pc = "failed"
    /\ rs.fetches = 1
    /\ Cardinality(ProviderEntries(rs)) = 2
    /\ IsZeroResults(rs.trace[1])
    /\ IsHardError(rs.trace[2])
    /\ Len(rs.geocodeCandidates) > 2

\* the store holds no entry that the earlier store did not hold
StoresNothing(before, after) ==
    \A key \in DOMAIN after : key \in DOMAIN before /\ after[key] = before[key]

\* a provider answer that geocodeCandidate caches: OK with a numeric location
IsCachedAnswer(entry) == AnswersOk(entry) /\ ~IsMalformedOk(entry)

\* a step in which an outbound call ends in failure stores nothing
FailureStoresNothing ==
    /\ (/\ rs.pc = "geocoding" /\ Len(rs'.trace) > Len(rs.trace)
        /\ ~IsCachedAnswer(rs'.trace[Len(rs.trace) + 1])) =>
           /\ StoresNothing(geocodeCache, geocodeCache')
           /\ shortUrlCache' = shortUrlCache /\ distanceCache' = distanceCache
    /\ (/\ rs.pc = "fetching" /\ rs'.pc # "fetching"
        /\ rs'.fetchOutcome.kind \in {"network error", "abort"}) =>
           /\ shortUrlCache' = shortUrlCache
           /\ StoresNothing(geocodeCache, geocodeCache')
           /\ distanceCache' = distanceCache
    /\ (\E i \in 1..Len(mx.legs), direction \in {"toLandmark", "toTarget"} :
            /\ mx.legs[i][direction].state = "pending"
            /\ mx'.legs[i][direction].state = "rejected") =>
           /\ distanceCache' = distanceCache
           /\ geocodeCache' = geocodeCache /\ shortUrlCache' = shortUrlCache

\* after a failure the cache holds nothing under the key of the call, so the
\* next call with that key misses the cache and goes out
NoEntryAfterFailure ==
    /\ \A j \in ProviderEntries(rs) :
           (/\ ~IsCachedAnswer(rs.trace[j])
            /\ \A k \in ProviderEntries(rs) :
                   (k > j /\ IsCachedAnswer(rs.trace[k])) =>
                       ToLowerCase(rs.trace[k].candidate)
                           # ToLowerCase(rs.trace[j].candidate)) =>
               StoreGet(geocodeCache, ToLowerCase(rs.trace[j].candidate)) = None
    /\ rs.fetchOutcome.kind \in {"network error", "abort"} =>
           StoreGet(shortUrlCache, UrlOf[rs.trimmed][1].href) = None
    /\ \A leg \in MatrixLegs(mx) :
           (/\ mx.legs[leg[1]][leg[2]].state = "rejected"
            /\ \A other \in MatrixLegs(mx) :
                   mx.legs[other[1]][other[2]].state = "fulfilled" =>
                       LegKey(mx, other) # LegKey(mx, leg)) =>
               StoreGet(distanceCache, LegKey(mx, leg)) = None

(* C28: only successful outcomes are cached. A geocoding call that ends in    *)
(* ZERO_RESULTS, a bad status, a malformed response or a transport error, a   *)
(* distance call that fails, and an expansion whose fetch throws or is        *)
(* aborted store nothing in any cache, and leave no entry under their key,    *)
(* so that the next call with that key goes out again.                        *)
C28_OnlySuccessCached == [](NoEntryAfterFailure) /\ [][FailureStoresNothing]_vars

\* the second resolution in a row: the expansion is aborted, the provider
\* has no result for one candidate and fails on the next, and the caches
\* are as empty as at the start
C28_Witness ==
    /\ rs.runs = 2
    /\ rs.pc = "failed"
    /\ rs.fetches = 1
    /\ rs.fetchOutcome.kind = "abort"
    /\ Len(rs.trace) = 2
    /\ IsZeroResults(rs.trace[1])
    /\ IsHardError(rs.trace[2])
    /\ geocodeCache = EmptyStore /\ shortUrlCache = EmptyStore

(* C20, as the claim states it: of the legs of one fan-out that have the same  *)
(* cache key (origin key, destination key, mode), at most one has a provider   *)
(* call in flight: the others are served by the cache.                         *)
C20_OneCallPerKey ==
    \A first \in MatrixLegs(mx), second \in MatrixLegs(mx) :
        (first # second /\ LegKey(mx, first) = LegKey(mx, second)) =>
            ~(/\ mx.legs[first[1]][first[2]].state = "pending"
              /\ mx.legs[second[1]][second[2]].state = "pending")

\* the target is the place of the first landmark: both legs of that landmark
\* have the same key, and both provider calls are in flight
C20_Witness ==
    /\ mx.pc = "running"
    /\ Len(mx.legs) >= 1
    /\ LegKey(mx, <<1, "toLandmark">>) = LegKey(mx, <<1, "toTarget">>)
    /\ mx.legs[1].toLandmark.state = "pending"
    /\ mx.legs[1].toTarget.state = "pending"
    /\ distanceCache = EmptyStore

(***************************************************************************)
(* Properties of extractGeocodeCandidates                                  *)
(***************************************************************************)
NoDuplicates(seq) == \A i, j \in 1..Len(seq) : seq[i] = seq[j] => i = j
ParsesAsPair(text) == ParseLatLngPair(text) # None
IsUrlInput(input) == ParseUrl(Trim(input)) # None

(* C9, as the claim states it: for every input, URL or not, no candidate      *)
(* extractGeocodeCandidates returns parses as a lat,lng pair, and no          *)
(* candidate is returned twice.                                               *)
C9_NoPairNoDuplicate ==
    pe.op = "extractGeocodeCandidates" =>
        /\ NoDuplicates(pe.result)
        /\ \A i \in 1..Len(pe.result) : ~ParsesAsPair(pe.result[i])

(* C9, amended: extractGeocodeCandidates never returns the same string twice; *)
(* for an input that parses as a URL no returned candidate parses as a        *)
(* lat,lng pair; for an input that is not a URL the result is the trimmed     *)
(* input alone (nothing for a blank input), whether or not it parses as a     *)
(* pair.                                                                      *)
C9_UrlCandidatesAreText ==
    pe.op = "extractGeocodeCandidates" =>
        /\ NoDuplicates(pe.result)
        /\ IsUrlInput(pe.input) =>
              \A i \in 1..Len(pe.result) : ~ParsesAsPair(pe.result[i])
        /\ ~IsUrlInput(pe.input) =>
              pe.result = IF Trim(pe.input) = <<>> THEN <<>> ELSE <<Trim(pe.input)>>

\* a URL one of whose raw candidates is a lat,lng pair once cleaned, and is
\* dropped, while other candidates are returned
C9_Witness ==
    /\ pe.op = "extractGeocodeCandidates"
    /\ IsUrlInput(pe.input)
    /\ \E raw \in Range(RawCandidates(ParseUrl(Trim(pe.input))[1], Trim(pe.input))) :
          /\ ParsesAsPair(CleanCandidate(raw))
          /\ CleanCandidate(raw) \notin Range(pe.result)
    /\ Len(pe.result) >= 2

(***************************************************************************)
(* Further properties of TTLCache and checkRateLimit                       *)
(***************************************************************************)
\* a step of set, and a step of get, of the cache instance
IsSetStep == cacheLast'.op = "set" /\ now' = now
IsGetStep == cacheLast'.op = "get" /\ now' = now

\* a step of checkRateLimit on the key
IsCheckStep(k) == <<rlOpen'[k], rlCalls'[k]>> # <<rlOpen[k], rlCalls[k]>>

(* C13, as the claim states it: for every key and every maxRequests >= 0,     *)
(* the count of the key's bucket never exceeds maxRequests.                   *)
C13_CountNeverExceeds ==
    \A k \in RateKeys : buckets[k] # None => buckets[k][1].count <= MaxRequestsOf(k)

(* C13, amended: for every key with maxRequests >= 1 the count of its bucket  *)
(* never exceeds maxRequests, and a call that finds count = maxRequests       *)
(* inside the window is denied; with maxRequests = 0 the call that opens a    *)
(* window is admitted and counted, so the count is 1, and every other         *)
(* call is denied.                                                            *)
C13_CountBoundedFromOne ==
    \A k \in RateKeys :
        buckets[k] # None =>
            /\ buckets[k][1].count >= 1
            /\ buckets[k][1].count <= Max2(MaxRequestsOf(k), 1)
            /\ (rlLast[k] # None /\ rlCalls[k] > Max2(MaxRequestsOf(k), 1)) =>
                   rlLast[k][1].ret = FALSE

\* the key limited to 0 has been admitted once, the key limited to
\* MaxRequests has used its quota and been denied
C13_Witness ==
    /\ buckets["zero"] # None /\ buckets["zero"][1].count = 1
    /\ rlLast["zero"] # None /\ rlLast["zero"][1].ret = TRUE
    /\ buckets["wide"] # None /\ buckets["wide"][1].count = MaxRequests
    /\ rlLast["wide"] # None /\ rlLast["wide"][1].ret = FALSE

(* C15: set is last-write-wins and total. Whatever the key held before (a     *)
(* live entry, an expired one or none), the step set(k, v, ttl) leaves the    *)
(* store it found with k bound to {v, now + (ttl if given, else the default   *)
(* TTL)}, and a get(k) at the same time returns v.                            *)
C15_SetLastWriteWins ==
    [][IsSetStep =>
          LET k == cacheLast'.key
              s == cacheSets'[k][1]
          IN  /\ cacheLast'.at = now /\ s.at = now
              /\ cache' = StorePut(cache, k, [value |-> s.value,
                                              expiresAt |-> now + s.ttl])
              /\ CacheGetValue(cache', k, now') = Some(s.value)
              /\ CacheGetStore(cache', k, now') = cache']_vars

\* a set on a key whose entry had expired, with a ttl other than the default
C15_Witness ==
    /\ cacheLast.op = "set"
    /\ cacheLast.held = "expired"
    /\ cacheSets[cacheLast.key][1].ttl # DefaultTtlMs
    /\ cacheLast.at > 0

(* C16: a get that returns a value leaves the whole store as it was (the      *)
(* entry's value and expiresAt, and every other key), so that every stored    *)
(* entry expires at the time of its set + ttl however often it was read.      *)
C16_GetDoesNotRefresh ==
    [][/\ (IsGetStep /\ cacheLast'.ret # None) => cache' = cache
       /\ \A k \in DOMAIN cache' :
              /\ cacheSets'[k] # None
              /\ cache'[k].expiresAt = cacheSets'[k][1].at + cacheSets'[k][1].ttl]_vars

\* a get that returned a value some time after the set, the other key stored
C16_Witness ==
    /\ cacheLast.op = "get"
    /\ cacheLast.ret # None
    /\ cacheLast.at > cacheSets[cacheLast.key][1].at
    /\ \E k \in DOMAIN cache : k # cacheLast.key

(* C17: a checkRateLimit call that returns false leaves every bucket as it    *)
(* was: the count and the resetAt of its key, and the buckets of the other    *)
(* keys.                                                                      *)
C17_DeniedChangesNothing ==
    [][\A k \in RateKeys :
           (IsCheckStep(k) /\ rlLast'[k][1].ret = FALSE) => buckets' = buckets]_vars

\* the keys limited to 0 and to 1 have both been denied inside their windows
C17_Witness ==
    /\ rlLast["zero"] # None /\ rlLast["zero"][1].ret = FALSE
    /\ rlLast["one"] # None /\ rlLast["one"][1].ret = FALSE
    /\ buckets["zero"] # None /\ buckets["one"] # None
    /\ buckets["one"][1].resetAt < now + WindowMs

(***************************************************************************)
(* Properties of extractCoordinatesFromGoogleMapsUrl                       *)
(***************************************************************************)
RECURSIVE FirstSome(_)
FirstSome(options) ==
    IF options = <<>> THEN None
    ELSE IF options[1] # None THEN options[1]
    ELSE FirstSome(Tail(options))

\* the first valid pair of a reference in the order of the patterns and
\* sources: "@", "!3d/!4d", and for a URL the query parameters and the path
ExpectedPair(prefix, path, at, embed, query) ==
    FirstSome(<<at.pair, embed.pair>>
              \o (IF prefix.url THEN <<query.pair, path.pair>> ELSE <<>>))

\* -90 <= lat <= 90 and -180 <= lng <= 180, both finite
InRange(coords) ==
    /\ coords.lat.finite /\ coords.lng.finite
    /\ -90 * Pow10(coords.lat.k) <= coords.lat.n
    /\ coords.lat.n <= 90 * Pow10(coords.lat.k)
    /\ -180 * Pow10(coords.lng.k) <= coords.lng.n
    /\ coords.lng.n <= 180 * Pow10(coords.lng.k)

IsCoordinatesCall == pe.op = "extractCoordinatesFromGoogleMapsUrl"

(* C11: extractCoordinatesFromGoogleMapsUrl never returns a pair out of       *)
(* range, and a pattern or source whose pair is out of range (or that finds   *)
(* no pair) does not end the search: the result is the first valid pair in    *)
(* the order "@", "!3d/!4d", query parameters, path, and null when there is   *)
(* none.                                                                      *)
C11_OutOfRangeFallsThrough ==
    IsCoordinatesCall =>
        /\ pe.result # None => InRange(pe.result[1])
        /\ \A prefix \in ReferencePrefixes, path \in PathParts, at \in AtParts,
              embed \in EmbedParts, query \in QueryParts :
               pe.input = ReferenceInput(prefix, path, at, embed, query) =>
                   pe.result = ExpectedPair(prefix, path, at, embed, query)

\* a URL whose "@" pair and "!3d/!4d" pair are both out of range and whose
\* query holds a valid pair after a parameter with a pair out of range
C11_Witness ==
    /\ IsCoordinatesCall
    /\ \E prefix \in ReferencePrefixes, path \in PathParts, at \in AtParts,
          embed \in EmbedParts, query \in QueryParts :
           /\ prefix.url
           /\ at.text # <<>> /\ at.pair = None
           /\ embed.text # <<>> /\ embed.pair = None
           /\ query.pair = Pair(Num(6, 0), Num(7, 0))
           /\ pe.input = ReferenceInput(prefix, path, at, embed, query)
           /\ pe.result = query.pair

(* C24: extractCoordinatesFromGoogleMapsUrl returns the first valid pair in   *)
(* the order "@", "!3d/!4d", then for a URL only the query parameters q,       *)
(* query, ll, sll, destination, origin, daddr, saddr in that order, whatever   *)
(* their order in the URL, then the percent-decoded path; for a text that is   *)
(* not a URL only the first two are tried, and a plain "lat,lng" gives null.   *)
C24_FixedSourceOrder ==
    IsCoordinatesCall =>
        /\ \A prefix \in ReferencePrefixes, path \in PathParts, at \in AtParts,
              embed \in EmbedParts, query \in QueryParts :
               pe.input = ReferenceInput(prefix, path, at, embed, query) =>
                   pe.result = FirstSome(<<at.pair, embed.pair>>
                                         \o (IF prefix.url THEN <<query.pair, path.pair>>
                                             ELSE <<>>))
        /\ \A i, j \in 1..Len(ParamNames) :
               pe.input = ParamOrderInput(i, j) =>
                   pe.result = Pair(Num(Min({i, j}), 0), Num(Min({i, j}) + 10, 0))
        /\ pe.input \in PlainPairTexts => pe.result = None
        /\ pe.input = EncodedPathInput => pe.result = Pair(Num(15, 1), Num(-25, 1))

\* "?saddr=8,18&ll=3,13" gives the pair of ll
C24_Witness ==
    /\ IsCoordinatesCall
    /\ pe.input = ParamOrderInput(8, 3)
    /\ pe.result = Pair(Num(3, 0), Num(13, 0))

(* C12: for every valid pair written in decimal notation, a reference that    *)
(* holds "@{lat},{lng}" is parsed back to the same pair.                      *)
C12_AtPairRoundTrip ==
    IsCoordinatesCall =>
        \A lat \in RoundTripLats, lng \in RoundTripLngs,
           format \in RoundTripFormats, context \in RoundTripContexts :
            pe.input = RoundTripInput(lat, lng, format, context) =>
                pe.result = Pair(lat, lng)

\* 40.712800,-74.006000 inside a URL, parsed back to 40.7128,-74.006
C12_Witness ==
    /\ IsCoordinatesCall
    /\ \E context \in RoundTripContexts :
           /\ context.after # <<>> /\ Len(context.before) > 5
           /\ pe.input = RoundTripInput(Num(407128, 4), Num(-74006, 3),
                                        "toFixed(6)", context)
    /\ pe.result = Pair(Num(407128, 4), Num(-74006, 3))

\* a list without the later occurrences of its elements
RECURSIVE KeepFirst(_, _)
KeepFirst(seq, seen) ==
    IF seq = <<>> THEN seen
    ELSE KeepFirst(Tail(seq), IF seq[1] \in Range(seen) THEN seen ELSE Append(seen, seq[1]))

(* C25: for a URL, extractGeocodeCandidates returns the cleaned candidates in *)
(* the order of their sources: the values of q, query, destination, origin,   *)
(* daddr, saddr; the segment after /place/; the segment after /search/; the   *)
(* decoded path without its /@ suffix, separators collapsed; the trimmed      *)
(* input last. A candidate that cleans to the empty string is dropped, and a  *)
(* repeated one keeps the place of its first occurrence.                      *)
C25_CandidatesInSourceOrder ==
    pe.op = "extractGeocodeCandidates" =>
        \A path \in CandidatePaths, query \in CandidateQueries \cup TwoParamQueries :
            pe.input = CandidateInput(path, query) =>
                pe.result = KeepFirst(query.candidates \o path.candidates
                                      \o <<CandidateOrigin \o path.clean \o query.clean>>,
                                      <<>>)

\* "https://m.co/Soho?saddr=Soho&q=Soho": the value comes once, first, and the
\* input last
C25_Witness ==
    /\ pe.op = "extractGeocodeCandidates"
    /\ pe.input = <<"h", "t", "t", "p", "s", ":", "/", "/", "m", ".", "c", "o", "/", "S",
                    "o", "h", "o", "?", "s", "a", "d", "d", "r", "=", "S", "o", "h", "o",
                    "&", "q", "=", "S", "o", "h", "o">>
    /\ pe.result = <<<<"S", "o", "h", "o">>, pe.input>>

(* C18: for a text that is not a URL, with white space around it or not,      *)
(* extractGeocodeCandidates returns the text alone, as it is (no cleaning);   *)
(* for a blank input it returns no candidate.                                 *)
C18_NonUrlGivesTrimmedInput ==
    pe.op = "extractGeocodeCandidates" =>
        \A before \in ParsePads, after \in ParsePads, text \in ParseTexts :
            pe.input = before \o text \o after =>
                pe.result = IF text = <<>> THEN <<>> ELSE <<text>>

\* a padded text that cleaning would change is returned as it is
C18_Witness ==
    /\ pe.op = "extractGeocodeCandidates"
    /\ pe.input = <<"\n", " ", "a", " ", " ", "+", "b", " ">>
    /\ pe.result = <<<<"a", " ", " ", "+", "b">>>>

(***************************************************************************)
(* Properties of the conversion in getDistanceWithTraffic                  *)
(***************************************************************************)
\* a number of at most one fraction digit, in tenths
Tenths(x) == x.n * Pow10(1 - x.k)

(* C19: for non-negative integers distanceMeters and durationSeconds,         *)
(* distance_km is distanceMeters / 1000 rounded to one decimal place (a       *)
(* tenth nearest to the quotient, at most 0.05 away) and duration_minutes is  *)
(* durationSeconds / 60 rounded to one decimal place; 12345 m and 725 s give  *)
(* 12.3 km and 12.1 min; both results are >= 0.                               *)
C19_RoundedToOneDecimal ==
    pe.op = "getDistanceWithTraffic" =>
        /\ pe.result # None
        /\ LET m == pe.input[1]
               s == pe.input[2]
               km == pe.result[1].distance_km
               min == pe.result[1].duration_minutes
           IN  /\ km.finite /\ km.k <= 1 /\ min.finite /\ min.k <= 1
               /\ 100 * Tenths(km) - m <= 50 /\ m - 100 * Tenths(km) <= 50
               /\ 6 * Tenths(min) - s <= 3 /\ s - 6 * Tenths(min) <= 3
               /\ Tenths(km) >= 0 /\ Tenths(min) >= 0
               /\ m = 12345 => Tenths(km) = 123
               /\ m = 12360 => Tenths(km) = 124
               /\ s = 725 => Tenths(min) = 121

\* 12345 m and 725 s of traffic-aware duration give 12.3 km and 12.1 min
C19_Witness ==
    /\ pe.op = "getDistanceWithTraffic"
    /\ pe.input = <<12345, 725, TRUE>>
    /\ pe.result = Some([distance_km |-> Num(123, 1), duration_minutes |-> Num(121, 1)])

\* the result is the conversion of this many seconds
MinutesOf(outcome, seconds) ==
    /\ outcome.kind = "value"
    /\ 6 * Tenths(outcome.value[1].duration_minutes) - seconds <= 3
    /\ seconds - 6 * Tenths(outcome.value[1].duration_minutes) <= 3

(* C33: the duration of a leg is the traffic-aware duration whenever the      *)
(* response carries duration_in_traffic, and the baseline duration only when  *)
(* duration_in_traffic is absent; when both are present and differ the        *)
(* baseline is not used. With neither the call fails.                         *)
C33_TrafficPreferred ==
    pe.op = "getDistanceWithTraffic: duration" =>
        \E duration \in {pe.input[1]}, inTraffic \in {pe.input[2]} :
            /\ inTraffic # None => MinutesOf(pe.result, inTraffic[1])
            /\ (inTraffic = None /\ duration # None) => MinutesOf(pe.result, duration[1])
            /\ (inTraffic # None /\ duration # None /\ duration # inTraffic) =>
                   ~MinutesOf(pe.result, duration[1])
            /\ (inTraffic = None /\ duration = None) => pe.result.kind = "throw"

\* a baseline of 10 minutes and no time at all in traffic: 0 minutes
C33_Witness ==
    /\ pe.op = "getDistanceWithTraffic: duration"
    /\ pe.input = <<Some(600), Some(0)>>
    /\ pe.result.kind = "value"
    /\ pe.result.value[1].duration_minutes = Num(0, 0)
====
